---- MODULE Spec2Model ----
(***************************************************************************)
(* Slot reservation and approval engine of the WhatsApp booking backend.   *)
(*                                                                         *)
(* The store (booking_holds, booking_drafts, booking_requests,             *)
(* booking_context) is shared by concurrently running webhook workers and  *)
(* admin endpoints.  db_conn() sets autocommit, so every SQL statement is  *)
(* its own transaction: one action of this model is one statement of one   *)
(* worker.  Wall-clock time is counted in units of 10 minutes, booking     *)
(* windows in half-hour slots since Monday 00:00 (Asia/Singapore).         *)
(***************************************************************************)
EXTENDS Integers, Sequences, FiniteSets, TLC

(* ------------------------------ bounds -------------------------------- *)
MaxNow == 1
MaxMsgs == 2
MaxCtxNow == 3
MaxDeskMsgs == 3
MaxCacheNow == 7
MaxKbVersion == 2

Customers == {"c1", "c2"}
Admins == {"admin"}
Workers == {"w1", "w2"}
MsgServices == {"car_wash"}
MsgStarts == {68}
Notes == {"none", "note"}

(* ----------------------- program constants ---------------------------- *)
HoldTTL == 1
CtxTTL == 3
OpenHour == 9
CloseHour == 18
ClosedWeekday == 6
\* _suggest_alternative_slots' defaults; a step of 30 minutes is one slot
MaxSuggestions == 3
StepSlots == 1
SearchDays == 7
\* settings.CACHE_MAX_AGE, 3600 seconds, in 10-minute units
CACHE_MAX_AGE == 6
\* dedup.PROCESSED_TTL, 24 hours, in 10-minute units
PROCESSED_TTL == 144

NoService == "none"
NoStart == -1
NoNotice == [to |-> "none", says |-> <<>>]
NoCtx == [expires_ts |-> -1, pending_service_key |-> NoService,
          pending_service_label |-> NoService, pending_start_local |-> NoStart]

SERVICE_CATALOG ==
    [car_servicing |-> [label |-> "Car servicing", dur |-> 4],
     car_wash      |-> [label |-> "Car wash",      dur |-> 2],
     polish        |-> [label |-> "Polishing",     dur |-> 8]]

RequestStatusCheck == {"pending", "approved", "rejected", "expired"}

(* ------------------------ time of a slot ------------------------------ *)
Weekday(t) == (t \div 48) % 7
HourOf(t) == (t % 48) \div 2
MinuteOf(t) == (t % 2) * 30

(* ------------------------------ state --------------------------------- *)
VARIABLES holds, drafts, requests, ctx, now, pc, loc, sent, msgs, kb, inbound

vars == <<holds, drafts, requests, ctx, now, pc, loc, sent, msgs, kb, inbound>>

\* kb_cache: the values a cache entry and a retrieval can hold
Questions == {"q1", "q2"}
\* from_number, kb_type (classify_kb) and k (5 at the call)
CacheKeys == Customers \X {"kb_general"} \X {5}
NoContext == [question |-> "none", kb |-> -1]
NoEntry == [context |-> NoContext, version |-> -1, ts |-> -1]
\* kb_version, conversation_contexts, and (history) the time of the last
\* completed miss of each key since the last version bump, -1 for none
EmptyKb == [version |-> 0,
            contexts |-> [key \in CacheKeys |-> NoEntry],
            missed |-> [key \in CacheKeys |-> -1]]

Idle == [customer |-> "none", text |-> "none", btn_draft |-> 0,
         svc |-> NoService, start |-> NoStart,
         draft |-> 0, prev |-> 0, draft_id |-> 0, hold_ids |-> {}, cont |-> <<>>, hold_id |-> 0, tnow |-> -1,
         intent_ok |-> FALSE, related |-> FALSE,
         req |-> 0, action |-> "none", note |-> "none", actor |-> "none",
         t0 |-> 0, result |-> "none", new_req |-> 0, alts |-> <<>>,
         notice |-> NoNotice, prompts |-> <<>>,
         msg_id |-> "none", key |-> <<>>, question |-> "none", force_refresh |-> FALSE, context |-> NoContext]

\* the store and the workers as one value
Cur == [holds |-> holds, drafts |-> drafts, requests |-> requests, ctx |-> ctx,
        sent |-> sent, pc |-> pc, loc |-> loc]

Become(S) ==
    /\ holds' = S.holds
    /\ drafts' = S.drafts
    /\ requests' = S.requests
    /\ ctx' = S.ctx
    /\ sent' = S.sent
    /\ pc' = S.pc
    /\ loc' = S.loc
    /\ kb' = kb
    /\ inbound' = inbound

Init ==
    /\ holds = <<>>
    /\ drafts = <<>>
    /\ requests = <<>>
    /\ ctx = [c \in Customers |-> NoCtx]
    /\ now = 0
    /\ pc = [w \in Workers |-> "idle"]
    /\ loc = [w \in Workers |-> Idle]
    /\ sent = <<>>
    /\ msgs = [c \in Customers |-> 0]
    /\ kb = EmptyKb
    \* the table processed_inbound and the dict processed_inbound_ids
    /\ inbound = [db |-> {}, mem |-> {}]

(* ----------------- bookings_repo: statements as operators -------------- *)
Overlaps(a_start, a_end, b_start, b_end) ==
    (a_start < b_end) /\ (b_start < a_end)

\* mutant: the WHERE clause with  expires_ts < now
ExpireOldHolds_Late(hs, t) ==
    [i \in DOMAIN hs |->
        IF hs[i].status = "active" /\ hs[i].expires_ts < t
        THEN [hs[i] EXCEPT !.status = "expired"]
        ELSE hs[i]]

\* UPDATE booking_holds SET status='expired' WHERE status='active' AND expires_ts <= now
ExpireOldHolds(hs, t) ==
    [i \in DOMAIN hs |->
        IF hs[i].status = "active" /\ hs[i].expires_ts <= t
        THEN [hs[i] EXCEPT !.status = "expired"]
        ELSE hs[i]]

\* SELECT COUNT(*) FROM booking_requests WHERE status='approved' AND overlap
ApprovedCount(rs, start_ts, end_ts) ==
    Cardinality({i \in DOMAIN rs :
        /\ rs[i].status = "approved"
        /\ rs[i].start_ts < end_ts
        /\ rs[i].end_ts > start_ts})

\* mutant: the overlap test with closed intervals (<= and >=)
HoldCount_Closed(hs, start_ts, end_ts, ignore_hold_id) ==
    Cardinality({i \in DOMAIN hs :
        /\ hs[i].status = "active"
        /\ (ignore_hold_id = 0 \/ i # ignore_hold_id)
        /\ hs[i].start_ts <= end_ts
        /\ hs[i].end_ts >= start_ts})

\* SELECT COUNT(*) FROM booking_holds WHERE status='active' [AND id <> ignore] AND overlap
HoldCount(hs, start_ts, end_ts, ignore_hold_id) ==
    Cardinality({i \in DOMAIN hs :
        /\ hs[i].status = "active"
        /\ (ignore_hold_id = 0 \/ i # ignore_hold_id)
        /\ hs[i].start_ts < end_ts
        /\ hs[i].end_ts > start_ts})

IsWindowAvailable(rs, hs, start_ts, end_ts, ignore_hold_id) ==
    IF ApprovedCount(rs, start_ts, end_ts) > 0
    THEN FALSE
    ELSE HoldCount(hs, start_ts, end_ts, ignore_hold_id) = 0

CreateHold(hs, customer, service_key, start_ts, end_ts, t) ==
    Append(hs, [customer |-> customer, service_key |-> service_key,
                start_ts |-> start_ts, end_ts |-> end_ts,
                expires_ts |-> t + HoldTTL, request_id |-> 0,
                status |-> "active"])

\* mutant: the UPDATE flipping the row between 'active' and 'released'
ReleaseHold_Toggle(hs, hold_id) ==
    [i \in DOMAIN hs |->
        IF i = hold_id
        THEN [hs[i] EXCEPT !.status = IF @ = "released" THEN "active" ELSE "released"]
        ELSE hs[i]]

\* mutant: the UPDATE writing 'active' into the row
ReleaseHold_Reactivate(hs, hold_id) ==
    [i \in DOMAIN hs |->
        IF i = hold_id THEN [hs[i] EXCEPT !.status = "active"] ELSE hs[i]]

\* UPDATE booking_holds SET status='released' WHERE id = hold_id
ReleaseHold(hs, hold_id) ==
    [i \in DOMAIN hs |->
        IF i = hold_id THEN [hs[i] EXCEPT !.status = "released"] ELSE hs[i]]

CreateBookingRequest(rs, customer, service_key, start_ts, end_ts) ==
    Append(rs, [customer |-> customer, service_key |-> service_key,
                start_ts |-> start_ts, end_ts |-> end_ts,
                status |-> "pending", admin_number |-> "none",
                admin_decision_ts |-> -1, admin_note |-> "none"])

\* mutant: the WHERE clause without  AND status = 'pending'
DecideRows_AnyStatus(rs, request_id) ==
    {i \in DOMAIN rs : i = request_id}

\* rows matched by  WHERE id = request_id AND status = 'pending'
DecideRows(rs, request_id) ==
    {i \in DOMAIN rs : i = request_id /\ rs[i].status = "pending"}

\* mutant: the UPDATE applied to the row whatever its status
DecideRequest_AnyStatus(rs, request_id, admin_number, decision, admin_note, t) ==
    [i \in DOMAIN rs |->
        IF i = request_id
        THEN [rs[i] EXCEPT !.status = decision,
                           !.admin_number = admin_number,
                           !.admin_decision_ts = t,
                           !.admin_note = admin_note]
        ELSE rs[i]]

DecideRequest(rs, request_id, admin_number, decision, admin_note, t) ==
    [i \in DOMAIN rs |->
        IF i \in DecideRows(rs, request_id)
        THEN [rs[i] EXCEPT !.status = decision,
                           !.admin_number = admin_number,
                           !.admin_decision_ts = t,
                           !.admin_note = admin_note]
        ELSE rs[i]]

\* _display_ref: the row's public_ref where the row has one, else its numeric id
DisplayRef(rs, request_id) ==
    IF "public_ref" \in DOMAIN rs[request_id] THEN rs[request_id].public_ref
    ELSE request_id

\* SELECT id FROM booking_holds WHERE request_id = r ORDER BY created_ts DESC LIMIT 1
\* (created_ts = expires_ts - HoldTTL); 0 stands for None
FindHoldByRequest(hs, request_id) ==
    LET m == {i \in DOMAIN hs : hs[i].request_id = request_id}
    IN IF m = {} THEN 0
       ELSE CHOOSE i \in m : \A j \in m :
                \/ hs[j].expires_ts < hs[i].expires_ts
                \/ (hs[j].expires_ts = hs[i].expires_ts /\ j <= i)

GetRequest(rs, request_id) == IF request_id \in DOMAIN rs THEN request_id ELSE 0

\* expire_old_drafts, statement 1: SELECT hold_id ... WHERE status='proposed' AND expires_ts <= now
ExpiringDraftHolds(ds, t) ==
    {ds[i].hold_id : i \in {j \in DOMAIN ds :
        ds[j].status = "proposed" /\ ds[j].expires_ts <= t}}

\* expire_old_drafts, statement 2: UPDATE booking_drafts SET status='expired' WHERE ...
ExpireDrafts(ds, t) ==
    [i \in DOMAIN ds |->
        IF ds[i].status = "proposed" /\ ds[i].expires_ts <= t
        THEN [ds[i] EXCEPT !.status = "expired"]
        ELSE ds[i]]

\* UPDATE booking_holds SET status='released' WHERE id = ANY(ids) AND status='active'
ReleaseActiveHolds(hs, ids) ==
    [i \in DOMAIN hs |->
        IF i \in ids /\ hs[i].status = "active"
        THEN [hs[i] EXCEPT !.status = "released"]
        ELSE hs[i]]

\* create_draft, statement 1: SELECT id, hold_id ... WHERE customer_number = c AND status='proposed'
ProposedDrafts(ds, customer) ==
    {i \in DOMAIN ds : ds[i].customer = customer /\ ds[i].status = "proposed"}

\* create_draft, statement 2: UPDATE booking_drafts SET status='cancelled' WHERE customer AND proposed
CancelProposedDrafts(ds, customer) ==
    [i \in DOMAIN ds |->
        IF i \in ProposedDrafts(ds, customer)
        THEN [ds[i] EXCEPT !.status = "cancelled"]
        ELSE ds[i]]

\* mutant: the INSERT without the hold's id
InsertDraft_NoHold(ds, customer, service_key, start_ts, end_ts, hold_id, t) ==
    Append(ds, [customer |-> customer, service_key |-> service_key,
                start_ts |-> start_ts, end_ts |-> end_ts,
                expires_ts |-> t + HoldTTL, hold_id |-> 0,
                status |-> "proposed"])

\* create_draft, statement 4: INSERT INTO booking_drafts ... 'proposed'
InsertDraft(ds, customer, service_key, start_ts, end_ts, hold_id, t) ==
    Append(ds, [customer |-> customer, service_key |-> service_key,
                start_ts |-> start_ts, end_ts |-> end_ts,
                expires_ts |-> t + HoldTTL, hold_id |-> hold_id,
                status |-> "proposed"])

\* get_active_draft's SELECT ... ORDER BY created_ts DESC LIMIT 1: the rows the
\* statement may return (created_ts = expires_ts - HoldTTL; ties are unordered)
ActiveDraftRows(ds, customer) ==
    LET m == ProposedDrafts(ds, customer)
    IN {i \in m : \A j \in m : ds[j].expires_ts <= ds[i].expires_ts}

\* get_draft_by_id (the second definition in the file is the one bound): plain SELECT
GetDraftById(ds, draft_id) == IF draft_id \in DOMAIN ds THEN draft_id ELSE 0

\* UPDATE booking_drafts SET status = s WHERE id = draft_id AND customer_number = c
MarkDraft(ds, customer, draft_id, status) ==
    [i \in DOMAIN ds |->
        IF i = draft_id /\ ds[i].customer = customer
        THEN [ds[i] EXCEPT !.status = status]
        ELSE ds[i]]

\* mutant: the SET clause without COALESCE, the new value written as given
Coalesce_Overwrite(new, old, null) == new

Coalesce(new, old, null) == IF new # null THEN new ELSE old

\* INSERT ... ON CONFLICT (customer_number) DO UPDATE SET ... COALESCE(EXCLUDED.x, old.x)
UpsertBookingContext(cx, customer, key, label, start_local, t) ==
    [cx EXCEPT ![customer] =
        IF cx[customer] = NoCtx
        THEN [expires_ts |-> t + CtxTTL, pending_service_key |-> key,
              pending_service_label |-> label, pending_start_local |-> start_local]
        ELSE [expires_ts |-> t + CtxTTL,
              pending_service_key |-> Coalesce(key, cx[customer].pending_service_key, NoService),
              pending_service_label |-> Coalesce(label, cx[customer].pending_service_label, NoService),
              pending_start_local |-> Coalesce(start_local, cx[customer].pending_start_local, NoStart)]]

ClearBookingContext(cx, customer) == [cx EXCEPT ![customer] = NoCtx]

\* get_booking_context: the row is stale when expires_ts <= now
CtxExpired(cx, customer, t) ==
    cx[customer] # NoCtx /\ cx[customer].expires_ts <= t


(* ------------------------- worker bookkeeping -------------------------- *)
Goto(S, w, label, l) == [S EXCEPT !.pc[w] = label, !.loc[w] = l]

\* the handler returns (or raises): what it was asked and what it answered
Return(S, w, result, new_req) ==
    Goto(S, w, "done", [Idle EXCEPT !.customer = S.loc[w].customer,
                                    !.text = S.loc[w].text,
                                    !.msg_id = S.loc[w].msg_id,
                                    !.draft = S.loc[w].draft,
                                    !.draft_id = S.loc[w].draft_id,
                                    !.req = S.loc[w].req,
                                    !.action = S.loc[w].action,
                                    !.result = result,
                                    !.new_req = new_req])

\* leave a repo function that was entered with a continuation
Continue(S, w, l) == Goto(S, w, Head(l.cont), [l EXCEPT !.cont = Tail(l.cont)])

DraftStart(S, w) == S.drafts[S.loc[w].draft].start_ts
DraftEnd(S, w) == S.drafts[S.loc[w].draft].end_ts
DraftHold(S, w) == S.drafts[S.loc[w].draft].hold_id
EndOf(service_key, start_ts) == start_ts + SERVICE_CATALOG[service_key].dur

(* ------------------- what the environment may answer -------------------- *)
\* llm_parse_booking's answer (intent and confidence, service, start), whether the
\* text holds a booking keyword (line 295), which of several equally recent rows
\* ORDER BY ... LIMIT 1 returns, and whether the table accepts status 'cancelled'
Answers(intents, relateds, svcs, starts, picks, accepts) ==
    [intent_ok : intents, related : relateds, svc : svcs, start : starts,
     pick : picks, accepted : accepts]

NoAnswer ==
    [intent_ok |-> FALSE, related |-> FALSE, svc |-> NoService, start |-> NoStart,
     pick |-> "last", accepted |-> TRUE]

AnyAnswers ==
    Answers(BOOLEAN, BOOLEAN, MsgServices \cup {NoService}, MsgStarts \cup {NoStart},
            {"last"}, {TRUE})

\* a confident booking intent that names a service and a start
BookingAnswers == Answers({TRUE}, {TRUE}, MsgServices, MsgStarts, {"last"}, {TRUE})

\* a service key the model's JSON may carry that SERVICE_CATALOG does not list
OtherService == "other"

\* every parse the handler may be given once a context row can be stored
CtxAnswers ==
    Answers(BOOLEAN, BOOLEAN, MsgServices \cup {NoService, OtherService},
            MsgStarts \cup {NoStart}, {"last"}, {TRUE})

PickAnswers == {[NoAnswer EXCEPT !.pick = p] : p \in {"first", "last"}}

SchemaAnswers ==
    {[NoAnswer EXCEPT !.accepted = a] : a \in {"cancelled" \in RequestStatusCheck, TRUE}}

PickRow(rows, pick) ==
    IF rows = {} THEN 0
    ELSE IF pick = "first" THEN CHOOSE i \in rows : \A j \in rows : i <= j
    ELSE CHOOSE i \in rows : \A j \in rows : j <= i

(* ------------- try_create_pending_booking, statement by statement ------- *)
\* a webhook delivery for a customer: free text ("msg"), a confirmation or
\* cancellation token, or a Confirm/Cancel button carrying a draft id
BeginMessage(S, w, c, text, d, t) ==
    Goto(S, w, "L162", [Idle EXCEPT !.customer = c, !.text = text,
                                    !.btn_draft = d, !.t0 = t])

\* expire_old_holds() at lines 162 and 209, followed by the call of expire_old_drafts()
DoExpireHolds(S, w, t, o) ==
    Goto([S EXCEPT !.holds = ExpireOldHolds(S.holds, t)], w, "exd1",
         [S.loc[w] EXCEPT !.cont =
             IF S.pc[w] = "L209" THEN <<"L212">>
             ELSE IF S.loc[w].text = "btn_confirm" THEN <<"L176">>
             ELSE IF S.loc[w].text = "btn_cancel" THEN <<"L194">>
             ELSE <<"exd1", "L204">>])

\* expire_old_drafts: SELECT hold_id of the drafts that expire (now is read once, on entry)
DoExpireDraftsSelect(S, w, t, o) ==
    Goto(S, w, "exd2", [S.loc[w] EXCEPT !.hold_ids = ExpiringDraftHolds(S.drafts, t),
                                        !.tnow = t])

\* expire_old_drafts: UPDATE booking_drafts SET status='expired'
DoExpireDraftsUpdate(S, w, t, o) ==
    LET T == [S EXCEPT !.drafts = ExpireDrafts(S.drafts, S.loc[w].tnow)]
    IN IF S.loc[w].hold_ids # {}
       THEN Goto(T, w, "exd3", [S.loc[w] EXCEPT !.tnow = -1])
       ELSE Continue(T, w, [S.loc[w] EXCEPT !.tnow = -1])

\* expire_old_drafts: UPDATE booking_holds SET status='released' WHERE id = ANY(hold_ids) AND active
DoExpireDraftsRelease(S, w, t, o) ==
    Continue([S EXCEPT !.holds = ReleaseActiveHolds(S.holds, S.loc[w].hold_ids)], w,
             [S.loc[w] EXCEPT !.hold_ids = {}])

\* lines 170-186 and 188-195: get_draft_by_id for a button and the ownership/status tests
DoButtonLookup(S, w, t, o) ==
    LET d == GetDraftById(S.drafts, S.loc[w].btn_draft)
        mine == d # 0 /\ S.drafts[d].customer = S.loc[w].customer
    IN IF S.pc[w] = "L176"
       THEN IF ~mine THEN Return(S, w, "offer_gone", 0)
            ELSE IF S.drafts[d].status # "proposed" THEN Return(S, w, "offer_expired", 0)
            ELSE Goto(S, w, "L209", [S.loc[w] EXCEPT !.draft = d])
       ELSE IF mine /\ S.drafts[d].status = "proposed"
            THEN Goto(S, w, "L196", [S.loc[w] EXCEPT !.draft = d])
            ELSE Goto(S, w, "L199", S.loc[w])

\* get_active_draft's SELECT at lines 204 and 334 (after its expire_old_drafts),
\* and the dispatch on the message that follows line 204
DoGetActiveDraft(S, w, t, o) ==
    LET d == PickRow(ActiveDraftRows(S.drafts, S.loc[w].customer), o.pick)
    IN IF S.pc[w] = "L334"
       THEN Goto(S, w, IF d # 0 THEN "L336" ELSE "L340", [S.loc[w] EXCEPT !.prev = d])
       ELSE IF d = 0 THEN Goto(S, w, "L279", S.loc[w])
       ELSE IF S.loc[w].text = "yes" THEN Goto(S, w, "L209", [S.loc[w] EXCEPT !.draft = d])
       ELSE IF S.loc[w].text = "no" THEN Goto(S, w, "L258", [S.loc[w] EXCEPT !.draft = d])
       \* line 265 reads draft["status"], a key get_active_draft does not return: KeyError
       ELSE Return(Goto(S, w, "L265", [S.loc[w] EXCEPT !.draft = d]), w, "error_keyerror", 0)

\* is_window_available, first statement: the approved requests that overlap
DoAvailRequests(S, w, t, o) ==
    LET s == IF S.pc[w] = "L212" THEN DraftStart(S, w) ELSE S.loc[w].start
        e == IF S.pc[w] = "L212" THEN DraftEnd(S, w)
             ELSE EndOf(S.loc[w].svc, S.loc[w].start)
    IN IF ApprovedCount(S.requests, s, e) > 0
       THEN Goto(S, w, IF S.pc[w] = "L212" THEN "L217" ELSE "L330", S.loc[w])
       ELSE Goto(S, w, IF S.pc[w] = "L212" THEN "L212h" ELSE "L329h", S.loc[w])

\* is_window_available, second statement: the active holds that overlap
DoAvailHolds(S, w, t, o) ==
    IF S.pc[w] = "L212h"
    THEN IF HoldCount(S.holds, DraftStart(S, w), DraftEnd(S, w), DraftHold(S, w)) = 0
         THEN Goto(S, w, "L223", S.loc[w])
         ELSE Goto(S, w, "L217", S.loc[w])
    ELSE IF HoldCount(S.holds, S.loc[w].start, EndOf(S.loc[w].svc, S.loc[w].start), 0) = 0
         THEN Goto(S, w, "exd1", [S.loc[w] EXCEPT !.cont = <<"L334">>])
         ELSE Goto(S, w, "L330", S.loc[w])

\* mutant: the call of release_hold left out
DoReleaseHold_Skipped(S, w, t, o) ==
    Goto(S, w,
         CASE S.pc[w] = "L196" -> "L197" [] S.pc[w] = "L217" -> "L218"
           [] S.pc[w] = "L258" -> "L259" [] S.pc[w] = "L336" -> "L337", S.loc[w])

\* release_hold at lines 196, 217, 258 (the draft's hold) and 336 (prev's hold)
DoReleaseHold(S, w, t, o) ==
    Goto([S EXCEPT !.holds = ReleaseHold(S.holds,
                        IF S.pc[w] = "L336" THEN S.drafts[S.loc[w].prev].hold_id
                        ELSE DraftHold(S, w))], w,
         CASE S.pc[w] = "L196" -> "L197" [] S.pc[w] = "L217" -> "L218"
           [] S.pc[w] = "L258" -> "L259" [] S.pc[w] = "L336" -> "L337", S.loc[w])

\* mark_draft at lines 197, 218, 259, 337
DoMarkDraft(S, w, t, o) ==
    LET T == [S EXCEPT !.drafts =
                MarkDraft(S.drafts, S.loc[w].customer,
                    IF S.pc[w] = "L337" THEN S.loc[w].prev ELSE S.loc[w].draft,
                    CASE S.pc[w] = "L197" -> "cancelled" [] S.pc[w] = "L218" -> "expired"
                      [] S.pc[w] = "L259" -> "cancelled" [] S.pc[w] = "L337" -> "expired")]
    IN CASE S.pc[w] = "L197" -> Goto(T, w, "L199", S.loc[w])
         [] S.pc[w] = "L218" -> Return(T, w, "just_taken", 0)
         [] S.pc[w] = "L259" -> Goto(T, w, "L260", S.loc[w])
         [] S.pc[w] = "L337" -> Goto(T, w, "L340", [S.loc[w] EXCEPT !.prev = 0])

\* line 223: create_booking_request inserts the row and returns its id, an int;
\* unpacking it into (req_id, public_ref) raises TypeError, so lines 231-255
\* (link_hold_to_request, mark_draft 'confirmed', clear context, payload) never run
DoCreateRequest(S, w, t, o) ==
    Return([S EXCEPT
              !.requests = CreateBookingRequest(S.requests, S.loc[w].customer,
                   S.drafts[S.loc[w].draft].service_key, DraftStart(S, w), DraftEnd(S, w)),
              !.sent = Append(S.sent, [approved |-> 0, rejected |-> 0, cancelled |-> 0])],
           w, "error_unpack", Len(S.requests) + 1)

\* lines 284-291: a field the message does not give is restored from the stored context
MergeContext(l, c) ==
    [l EXCEPT !.svc = IF l.svc = NoService THEN c.pending_service_key ELSE l.svc,
              !.start = IF l.start = NoStart THEN c.pending_start_local ELSE l.start]

\* mutant: the last two tests folded into  end.hour >= 18
OutsideHours_EndStrict(start_ts, end_ts) ==
    \/ HourOf(start_ts) < OpenHour
    \/ HourOf(start_ts) >= CloseHour
    \/ HourOf(end_ts) >= CloseHour

\* line 326: start.hour < 9 or start.hour >= 18 or end.hour > 18 or (end.hour == 18 and end.minute > 0)
OutsideHours(start_ts, end_ts) ==
    \/ HourOf(start_ts) < OpenHour
    \/ HourOf(start_ts) >= CloseHour
    \/ HourOf(end_ts) > CloseHour
    \/ (HourOf(end_ts) = CloseHour /\ MinuteOf(end_ts) > 0)

\* mutant: Stage 1 without the intent and confidence test of line 293
Stage1_NoIntentGate(S, w, l) ==
    LET k == [l EXCEPT !.intent_ok = FALSE, !.related = FALSE]
    IN IF l.svc \notin DOMAIN SERVICE_CATALOG
       THEN IF l.start # NoStart THEN Goto(S, w, "L303", k) ELSE Return(S, w, "ask_both", 0)
       ELSE IF l.start = NoStart THEN Goto(S, w, "L313", k)
       ELSE IF Weekday(l.start) = ClosedWeekday THEN Return(S, w, "closed", 0)
       ELSE IF OutsideHours(l.start, EndOf(l.svc, l.start)) THEN Return(S, w, "hours", 0)
       ELSE Goto(S, w, "L329", k)

\* lines 293-329: what Stage 1 does with the merged parse, up to the availability check
Stage1(S, w, l) ==
    LET k == [l EXCEPT !.intent_ok = FALSE, !.related = FALSE]
    IN IF ~l.intent_ok
       THEN IF l.related THEN Return(S, w, "unhandled", 0) ELSE Goto(S, w, "L297", k)
       ELSE IF l.svc \notin DOMAIN SERVICE_CATALOG
       THEN IF l.start # NoStart THEN Goto(S, w, "L303", k) ELSE Return(S, w, "ask_both", 0)
       ELSE IF l.start = NoStart THEN Goto(S, w, "L313", k)
       ELSE IF Weekday(l.start) = ClosedWeekday THEN Return(S, w, "closed", 0)
       ELSE IF OutsideHours(l.start, EndOf(l.svc, l.start)) THEN Return(S, w, "hours", 0)
       ELSE Goto(S, w, "L329", k)

\* line 279 llm_parse_booking (an external answer) and line 282 get_booking_context's SELECT
DoParse(S, w, t, o) ==
    LET l == [S.loc[w] EXCEPT !.intent_ok = o.intent_ok, !.related = o.related,
                              !.svc = o.svc, !.start = o.start]
    IN IF CtxExpired(S.ctx, l.customer, t)
       THEN Goto(S, w, "L670", l)
       ELSE Stage1(S, w, MergeContext(l, S.ctx[l.customer]))

\* clear_booking_context at lines 199, 260, 297, 359 and, for a stale row, 670
DoClearContext(S, w, t, o) ==
    LET T == [S EXCEPT !.ctx = ClearBookingContext(S.ctx, S.loc[w].customer)]
    IN CASE S.pc[w] = "L199" -> Return(T, w, "cancelled", 0)
         [] S.pc[w] = "L260" -> Return(T, w, "cancelled", 0)
         [] S.pc[w] = "L297" -> Return(T, w, "unhandled", 0)
         [] S.pc[w] = "L359" -> Return(T, w, "proposed", 0)
         [] S.pc[w] = "L670" -> Stage1(T, w, S.loc[w])

\* _suggest_alternative_slots, lines 41-54: the body of the loop for one
\* candidate; st is the list of suggestions so far and the number of
\* is_window_available calls made
SuggestIteration(rs, hs, service_key, cur, st) ==
    LET end == cur + SERVICE_CATALOG[service_key].dur
    IN IF Weekday(cur) = ClosedWeekday THEN st
       ELSE IF ~(HourOf(cur) >= OpenHour /\ HourOf(cur) < CloseHour) THEN st
       ELSE IF ~(HourOf(end) < CloseHour
                    \/ (HourOf(end) = CloseHour /\ MinuteOf(end) = 0)) THEN st
       ELSE IF IsWindowAvailable(rs, hs, cur, end, 0)
       THEN [alts |-> Append(st.alts, [start_ts |-> cur, end_ts |-> end]),
             checks |-> st.checks + 1]
       ELSE [st EXCEPT !.checks = @ + 1]

\* lines 40-54: iterations lo..hi of the loop in order, none after the break at
\* max_suggestions; the range is run as its first half followed by its second
RECURSIVE SuggestLoop(_, _, _, _, _, _, _)
SuggestLoop(rs, hs, service_key, first, lo, hi, st) ==
    IF Len(st.alts) >= MaxSuggestions THEN st
    ELSE IF lo = hi
    THEN SuggestIteration(rs, hs, service_key, first + lo * StepSlots, st)
    ELSE LET mid == (lo + hi) \div 2
         \* the second half goes on from the one state the first half ended in
         IN CHOOSE out \in {SuggestLoop(rs, hs, service_key, first, mid + 1, hi, half) :
                               half \in {SuggestLoop(rs, hs, service_key, first, lo, mid, st)}} : TRUE

\* mutant: the search starting at the requested start itself
SuggestAlternativeSlots_FromStart(rs, hs, service_key, requested_start) ==
    SuggestLoop(rs, hs, service_key, requested_start,
                0, (SearchDays * 48) \div StepSlots - 1, [alts |-> <<>>, checks |-> 0])

\* cur = requested_start + step; range(int(search_days * 24 * 60 / step_minutes))
SuggestAlternativeSlots(rs, hs, service_key, requested_start) ==
    SuggestLoop(rs, hs, service_key, requested_start + StepSlots,
                0, (SearchDays * 48) \div StepSlots - 1, [alts |-> <<>>, checks |-> 0])

\* upsert_booking_context at lines 303, 313, 330
DoUpsertContext(S, w, t, o) ==
    LET l == S.loc[w]
    IN CASE S.pc[w] = "L303" ->
              Return([S EXCEPT !.ctx = UpsertBookingContext(S.ctx, l.customer, NoService,
                                            NoService, l.start, t)], w, "ask_service", 0)
         [] S.pc[w] = "L313" ->
              Return([S EXCEPT !.ctx = UpsertBookingContext(S.ctx, l.customer, l.svc,
                                            SERVICE_CATALOG[l.svc].label, NoStart, t)],
                     w, "ask_time", 0)
         \* line 331: the reply lists what _suggest_alternative_slots finds
         [] S.pc[w] = "L330" ->
              [Return([S EXCEPT !.ctx = UpsertBookingContext(S.ctx, l.customer, NoService,
                                            NoService, NoStart, t)], w, "suggest", 0)
                 EXCEPT !.loc[w].alts =
                     SuggestAlternativeSlots(S.requests, S.holds, l.svc, l.start).alts]

\* line 340: create_hold
DoCreateHold(S, w, t, o) ==
    LET l == S.loc[w]
    IN Goto([S EXCEPT !.holds = CreateHold(S.holds, l.customer, l.svc, l.start,
                                           EndOf(l.svc, l.start), t)],
            w, "L467", [l EXCEPT !.hold_id = Len(S.holds) + 1])

\* create_draft: SELECT the customer's proposed drafts (now is read once, on entry)
DoCreateDraftSelect(S, w, t, o) ==
    LET old == ProposedDrafts(S.drafts, S.loc[w].customer)
    IN Goto(S, w, IF old # {} THEN "L479" ELSE "L497",
            [S.loc[w] EXCEPT !.hold_ids = {S.drafts[i].hold_id : i \in old}, !.tnow = t])

\* create_draft: UPDATE booking_drafts SET status='cancelled'
DoCreateDraftCancel(S, w, t, o) ==
    Goto([S EXCEPT !.drafts = CancelProposedDrafts(S.drafts, S.loc[w].customer)],
         w, "L488", S.loc[w])

\* create_draft: UPDATE booking_holds SET status='released' for the old drafts' holds
DoCreateDraftRelease(S, w, t, o) ==
    Goto([S EXCEPT !.holds = ReleaseActiveHolds(S.holds, S.loc[w].hold_ids)],
         w, "L497", S.loc[w])

\* create_draft: INSERT the new proposed draft
DoCreateDraftInsert(S, w, t, o) ==
    LET l == S.loc[w]
    IN Goto([S EXCEPT !.drafts = InsertDraft(S.drafts, l.customer, l.svc, l.start,
                                      EndOf(l.svc, l.start), l.hold_id, l.tnow)],
            w, "L359", [l EXCEPT !.hold_ids = {}, !.tnow = -1,
                                 !.draft_id = Len(S.drafts) + 1])

(* ------------------ admin: approve / reject / cancel ------------------- *)
\* resolve_request_id(ref): the internal id of the request the reference names, or none
ResolveRequestId(rs, ref) == IF ref \in DOMAIN rs THEN ref ELSE 0

\* cancel_request: rows matched by  WHERE id = request_id AND status = 'approved'
CancelRows(rs, request_id) ==
    {i \in DOMAIN rs : i = request_id /\ rs[i].status = "approved"}

CancelRequest(rs, request_id, admin_number, admin_note, t) ==
    [i \in DOMAIN rs |->
        IF i \in CancelRows(rs, request_id)
        THEN [rs[i] EXCEPT !.status = "cancelled",
                           !.admin_number = admin_number,
                           !.admin_decision_ts = t,
                           !.admin_note = admin_note]
        ELSE rs[i]]

\* POST /{ref}/approve|reject|cancel, or the /approve and /reject commands
BeginAdmin(S, w, ref, action, note, actor, t) ==
    Goto(S, w, "A_resolve", [Idle EXCEPT !.req = ref, !.action = action,
                                         !.note = note, !.actor = actor])

\* resolve_request_id and get_request: 404 / "not found" when the reference names no request
DoAdminResolve(S, w, t, o) ==
    LET id == GetRequest(S.requests, ResolveRequestId(S.requests, S.loc[w].req))
    IN IF id = 0 THEN Return(Goto(S, w, "A_resolve", [S.loc[w] EXCEPT !.req = 0]),
                             w, "not_found", 0)
       ELSE Goto(S, w, IF S.loc[w].action = "cancelled" THEN "A_cancel" ELSE "A_decide",
                 [S.loc[w] EXCEPT !.req = id])

\* mutant: the endpoint goes on without looking at decide_request's result
DoAdminDecide_Unchecked(S, w, t, o) ==
    Goto([S EXCEPT !.requests = DecideRequest(S.requests, S.loc[w].req, S.loc[w].actor,
                                              S.loc[w].action, S.loc[w].note, t)],
         w, "A_find", [S.loc[w] EXCEPT !.note = "none", !.actor = "none"])

\* decide_request: the conditional UPDATE; 409 / "already decided" when no row matched
DoAdminDecide(S, w, t, o) ==
    LET l == S.loc[w]
        T == [S EXCEPT !.requests = DecideRequest(S.requests, l.req, l.actor, l.action,
                                                  l.note, t)]
    IN IF Cardinality(DecideRows(S.requests, l.req)) = 1
       THEN Goto(T, w, "A_find", [l EXCEPT !.note = "none", !.actor = "none"])
       ELSE Return(T, w, "conflict", 0)

\* find_hold_by_request, then release_hold when a hold is linked
DoAdminReleaseHold(S, w, t, o) ==
    IF S.pc[w] = "A_find"
    THEN Goto(S, w, IF FindHoldByRequest(S.holds, S.loc[w].req) # 0
                    THEN "A_release" ELSE "A_notify",
              [S.loc[w] EXCEPT !.hold_id = FindHoldByRequest(S.holds, S.loc[w].req)])
    ELSE Goto([S EXCEPT !.holds = ReleaseHold(S.holds, S.loc[w].hold_id)],
              w, "A_notify", S.loc[w])

\* cancel_request; the booking_requests CHECK of db_init_bookings does not list
\* 'cancelled', so on a table created by it the UPDATE of an approved row is refused
DoAdminCancel(S, w, t, o) ==
    LET l == S.loc[w]
    IN IF CancelRows(S.requests, l.req) = {} THEN Return(S, w, "conflict", 0)
       ELSE IF o.accepted
       THEN Goto([S EXCEPT !.requests = CancelRequest(S.requests, l.req, l.actor, l.note, t)],
                 w, "A_notify", [l EXCEPT !.note = "none", !.actor = "none"])
       ELSE Return(S, w, "error_check", 0)

\* mutant: the admin's note appended to the customer message
CustomerNotice_WithNote(rs, request_id, action) ==
    [to |-> rs[request_id].customer,
     says |-> <<action, ToString(DisplayRef(rs, request_id)), rs[request_id].admin_note>>]

\* the customer message of lines 78-90, 117-124 and 146-158: its wording (by
\* action), the service label and the window (not in a rejection) and the
\* reference, each formatted into the text
CustomerNotice(rs, request_id, action) ==
    [to |-> rs[request_id].customer,
     says |-> IF action = "rejected"
              THEN <<action, ToString(DisplayRef(rs, request_id))>>
              ELSE <<action, SERVICE_CATALOG[rs[request_id].service_key].label,
                     ToString(rs[request_id].start_ts), ToString(rs[request_id].end_ts),
                     ToString(DisplayRef(rs, request_id))>>]

\* send_whatsapp_message to the request's customer: one message per successful action
DoAdminNotify(S, w, t, o) ==
    [Return([S EXCEPT !.sent[S.loc[w].req][S.loc[w].action] = @ + 1], w, "ok", 0)
        EXCEPT !.loc[w].notice = CustomerNotice(S.requests, S.loc[w].req, S.loc[w].action)]

(* --------------------------- the next statement ------------------------- *)
Stmt(S, w, t, o) ==
    LET l == S.pc[w]
    IN CASE l \in {"L162", "L209"} -> DoExpireHolds(S, w, t, o)
         [] l = "exd1" -> DoExpireDraftsSelect(S, w, t, o)
         [] l = "exd2" -> DoExpireDraftsUpdate(S, w, t, o)
         [] l = "exd3" -> DoExpireDraftsRelease(S, w, t, o)
         [] l \in {"L176", "L194"} -> DoButtonLookup(S, w, t, o)
         [] l \in {"L204", "L334"} -> DoGetActiveDraft(S, w, t, o)
         [] l \in {"L212", "L329"} -> DoAvailRequests(S, w, t, o)
         [] l \in {"L212h", "L329h"} -> DoAvailHolds(S, w, t, o)
         [] l \in {"L196", "L217", "L258", "L336"} -> DoReleaseHold(S, w, t, o)
         [] l \in {"L197", "L218", "L259", "L337"} -> DoMarkDraft(S, w, t, o)
         [] l = "L223" -> DoCreateRequest(S, w, t, o)
         [] l = "L279" -> DoParse(S, w, t, o)
         [] l \in {"L199", "L260", "L297", "L359", "L670"} -> DoClearContext(S, w, t, o)
         [] l \in {"L303", "L313", "L330"} -> DoUpsertContext(S, w, t, o)
         [] l = "L340" -> DoCreateHold(S, w, t, o)
         [] l = "L467" -> DoCreateDraftSelect(S, w, t, o)
         [] l = "L479" -> DoCreateDraftCancel(S, w, t, o)
         [] l = "L488" -> DoCreateDraftRelease(S, w, t, o)
         [] l = "L497" -> DoCreateDraftInsert(S, w, t, o)
         [] l = "A_resolve" -> DoAdminResolve(S, w, t, o)
         [] l = "A_decide" -> DoAdminDecide(S, w, t, o)
         [] l \in {"A_find", "A_release"} -> DoAdminReleaseHold(S, w, t, o)
         [] l = "A_cancel" -> DoAdminCancel(S, w, t, o)
         [] l = "A_notify" -> DoAdminNotify(S, w, t, o)

\* a handler run from its first statement to its return, nothing interleaved
RECURSIVE RunToEnd(_, _, _, _)
RunToEnd(S, w, t, o) ==
    IF S.pc[w] \in {"done", "idle"} THEN S
    ELSE RunToEnd(Stmt(S, w, t, o), w, t, o)

\* the worker is free for the next delivery
Free(S, w) == Goto(S, w, "idle", Idle)

ButtonIds(text) ==
    IF text \in {"btn_confirm", "btn_cancel"} THEN 1..(Len(drafts) + 1) ELSE {0}

(* ------------------- one statement of one worker ------------------------ *)
\* what a customer sends: a booking message first, then one of the later texts
Texts(c, later) == IF msgs[c] = 0 THEN {"msg"} ELSE later

\* a customer's message is delivered to a free worker
StartMessage(w, later) ==
    \E c \in Customers : \E text \in Texts(c, later) : \E d \in ButtonIds(text) :
        /\ pc[w] = "idle"
        /\ msgs[c] < MaxMsgs
        /\ Become(BeginMessage(Cur, w, c, text, d, now))
        /\ msgs' = [msgs EXCEPT ![c] = @ + 1]
        /\ now' = now

ExpireHoldsStmt(w) ==
    /\ pc[w] \in {"L162", "L209"}
    /\ Become(DoExpireHolds(Cur, w, now, NoAnswer))
    /\ UNCHANGED <<now, msgs>>
ExpireDraftsSelect(w) ==
    /\ pc[w] \in {"exd1"}
    /\ Become(DoExpireDraftsSelect(Cur, w, now, NoAnswer))
    /\ UNCHANGED <<now, msgs>>
ExpireDraftsUpdate(w) ==
    /\ pc[w] \in {"exd2"}
    /\ Become(DoExpireDraftsUpdate(Cur, w, now, NoAnswer))
    /\ UNCHANGED <<now, msgs>>
ExpireDraftsRelease(w) ==
    /\ pc[w] \in {"exd3"}
    /\ Become(DoExpireDraftsRelease(Cur, w, now, NoAnswer))
    /\ UNCHANGED <<now, msgs>>
ButtonLookup(w) ==
    /\ pc[w] \in {"L176", "L194"}
    /\ Become(DoButtonLookup(Cur, w, now, NoAnswer))
    /\ UNCHANGED <<now, msgs>>
GetActiveDraftSelect(w) ==
    \E o \in PickAnswers :
        /\ pc[w] \in {"L204", "L334"}
        /\ Become(DoGetActiveDraft(Cur, w, now, o))
        /\ UNCHANGED <<now, msgs>>
AvailRequestsStmt(w) ==
    /\ pc[w] \in {"L212", "L329"}
    /\ Become(DoAvailRequests(Cur, w, now, NoAnswer))
    /\ UNCHANGED <<now, msgs>>
AvailHoldsStmt(w) ==
    /\ pc[w] \in {"L212h", "L329h"}
    /\ Become(DoAvailHolds(Cur, w, now, NoAnswer))
    /\ UNCHANGED <<now, msgs>>
ReleaseHoldStmt(w) ==
    /\ pc[w] \in {"L196", "L217", "L258", "L336"}
    /\ Become(DoReleaseHold(Cur, w, now, NoAnswer))
    /\ UNCHANGED <<now, msgs>>
MarkDraftStmt(w) ==
    /\ pc[w] \in {"L197", "L218", "L259", "L337"}
    /\ Become(DoMarkDraft(Cur, w, now, NoAnswer))
    /\ UNCHANGED <<now, msgs>>
CreateRequestStmt(w) ==
    /\ pc[w] \in {"L223"}
    /\ Become(DoCreateRequest(Cur, w, now, NoAnswer))
    /\ UNCHANGED <<now, msgs>>
ParseStmt(w, A) ==
    \E o \in A :
        /\ pc[w] \in {"L279"}
        /\ Become(DoParse(Cur, w, now, o))
        /\ UNCHANGED <<now, msgs>>
ClearContextStmt(w) ==
    /\ pc[w] \in {"L199", "L260", "L297", "L359", "L670"}
    /\ Become(DoClearContext(Cur, w, now, NoAnswer))
    /\ UNCHANGED <<now, msgs>>
UpsertContextStmt(w) ==
    /\ pc[w] \in {"L303", "L313", "L330"}
    /\ Become(DoUpsertContext(Cur, w, now, NoAnswer))
    /\ UNCHANGED <<now, msgs>>
CreateHoldStmt(w) ==
    /\ pc[w] \in {"L340"}
    /\ Become(DoCreateHold(Cur, w, now, NoAnswer))
    /\ UNCHANGED <<now, msgs>>
CreateDraftSelect(w) ==
    /\ pc[w] \in {"L467"}
    /\ Become(DoCreateDraftSelect(Cur, w, now, NoAnswer))
    /\ UNCHANGED <<now, msgs>>
CreateDraftCancel(w) ==
    /\ pc[w] \in {"L479"}
    /\ Become(DoCreateDraftCancel(Cur, w, now, NoAnswer))
    /\ UNCHANGED <<now, msgs>>
CreateDraftRelease(w) ==
    /\ pc[w] \in {"L488"}
    /\ Become(DoCreateDraftRelease(Cur, w, now, NoAnswer))
    /\ UNCHANGED <<now, msgs>>
CreateDraftInsert(w) ==
    /\ pc[w] \in {"L497"}
    /\ Become(DoCreateDraftInsert(Cur, w, now, NoAnswer))
    /\ UNCHANGED <<now, msgs>>

\* an admin call arrives and looks its reference up
StartAdmin(w, actions) ==
    \E ref \in 1..(Len(requests) + 1), action \in actions, note \in Notes, actor \in Admins :
        /\ pc[w] = "idle"
        /\ Become(DoAdminResolve(BeginAdmin(Cur, w, ref, action, note, actor, now),
                                 w, now, NoAnswer))
        /\ UNCHANGED <<now, msgs>>
AdminDecide(w) ==
    /\ pc[w] \in {"A_decide"}
    /\ Become(DoAdminDecide(Cur, w, now, NoAnswer))
    /\ UNCHANGED <<now, msgs>>
AdminReleaseHold(w) ==
    /\ pc[w] \in {"A_find", "A_release"}
    /\ Become(DoAdminReleaseHold(Cur, w, now, NoAnswer))
    /\ UNCHANGED <<now, msgs>>
AdminCancel(w) ==
    \E o \in SchemaAnswers :
        /\ pc[w] \in {"A_cancel"}
        /\ Become(DoAdminCancel(Cur, w, now, o))
        /\ UNCHANGED <<now, msgs>>
AdminNotify(w) ==
    /\ pc[w] \in {"A_notify"}
    /\ Become(DoAdminNotify(Cur, w, now, NoAnswer))
    /\ UNCHANGED <<now, msgs>>

Finish(w) ==
    /\ pc[w] \in {"done"}
    /\ Become(Free(Cur, w))
    /\ UNCHANGED <<now, msgs>>

\* the statements of try_create_pending_booking
CustomerStep(w, A) ==
    \/ ExpireHoldsStmt(w)
    \/ ExpireDraftsSelect(w)
    \/ ExpireDraftsUpdate(w)
    \/ ExpireDraftsRelease(w)
    \/ GetActiveDraftSelect(w)
    \/ AvailRequestsStmt(w)
    \/ AvailHoldsStmt(w)
    \/ ReleaseHoldStmt(w)
    \/ MarkDraftStmt(w)
    \/ CreateRequestStmt(w)
    \/ ParseStmt(w, A)
    \/ ClearContextStmt(w)
    \/ UpsertContextStmt(w)
    \/ CreateHoldStmt(w)
    \/ CreateDraftSelect(w)
    \/ CreateDraftCancel(w)
    \/ CreateDraftRelease(w)
    \/ CreateDraftInsert(w)
    \/ Finish(w)

\* the statements of the approve / reject / cancel endpoints and commands
AdminStep(w) ==
    \/ AdminDecide(w)
    \/ AdminReleaseHold(w)
    \/ AdminCancel(w)
    \/ AdminNotify(w)
    \/ Finish(w)

(* ------------- one message at a time, handled to completion ------------- *)
HandleMessage(w, later, A) ==
    \E c \in Customers, o \in A : \E text \in Texts(c, later) : \E d \in ButtonIds(text) :
        LET R == RunToEnd(BeginMessage(Cur, w, c, text, d, now), w, now, o)
        IN /\ pc[w] = "idle"
           /\ msgs[c] < MaxMsgs
           /\ Become(Free(R, w))
           /\ msgs' = [msgs EXCEPT ![c] = @ + 1]
           /\ now' = now

\* wall-clock time passes
Tick ==
    /\ now < MaxNow
    /\ now' = now + 1
    /\ UNCHANGED <<holds, drafts, requests, ctx, pc, loc, sent, msgs, kb, inbound>>

(* ---- concurrent webhook workers: customers propose and confirm ---------- *)
Next ==
    \/ Tick
    \/ StartMessage("w1", {"msg", "yes"})
    \/ (pc["w1"] # "idle" /\ StartMessage("w2", {"msg", "yes"}))
    \/ \E w \in Workers : CustomerStep(w, BookingAnswers)

Spec == Init /\ [][Next]_vars

(* ---- two customers propose, then confirm; no hold lives long enough to expire *)
RaceStep(w) ==
    \/ ExpireHoldsStmt(w)
    \/ ExpireDraftsSelect(w)
    \/ ExpireDraftsUpdate(w)
    \/ GetActiveDraftSelect(w)
    \/ AvailRequestsStmt(w)
    \/ AvailHoldsStmt(w)
    \/ ReleaseHoldStmt(w)
    \/ MarkDraftStmt(w)
    \/ CreateRequestStmt(w)
    \/ ParseStmt(w, BookingAnswers)
    \/ ClearContextStmt(w)
    \/ UpsertContextStmt(w)
    \/ CreateHoldStmt(w)
    \/ CreateDraftSelect(w)
    \/ CreateDraftInsert(w)
    \/ Finish(w)

RaceNext ==
    \/ StartMessage("w1", {"yes"})
    \/ (pc["w1"] # "idle" /\ StartMessage("w2", {"yes"}))
    \/ \E w \in Workers : RaceStep(w)

\* a worker that has a statement to run runs it
RaceSpec == Init /\ [][RaceNext]_vars /\ WF_vars(RaceNext)

(* ---- concurrent admin decisions over the customers' requests ------------ *)
AdminNext ==
    \/ Tick
    \/ \E w \in Workers : HandleMessage(w, {"yes"}, BookingAnswers)
    \/ StartAdmin("w1", {"approved", "rejected", "cancelled"})
    \/ (pc["w1"] # "idle" /\ StartAdmin("w2", {"approved", "rejected", "cancelled"}))
    \/ \E w \in Workers : AdminStep(w)

AdminSpec == Init /\ [][AdminNext]_vars

(* ---- one worker, the clock running past a stored context's expiry ------- *)
LongTick ==
    /\ now < MaxCtxNow
    /\ now' = now + 1
    /\ UNCHANGED <<holds, drafts, requests, ctx, pc, loc, sent, msgs, kb, inbound>>

SoloStep(w) ==
    \/ ExpireHoldsStmt(w)
    \/ ExpireDraftsSelect(w)
    \/ ExpireDraftsUpdate(w)
    \/ ExpireDraftsRelease(w)
    \/ GetActiveDraftSelect(w)
    \/ AvailRequestsStmt(w)
    \/ AvailHoldsStmt(w)
    \/ CreateRequestStmt(w)
    \/ ParseStmt(w, CtxAnswers)
    \/ ClearContextStmt(w)
    \/ UpsertContextStmt(w)
    \/ CreateHoldStmt(w)
    \/ CreateDraftSelect(w)
    \/ CreateDraftInsert(w)
    \/ Finish(w)

SoloNext ==
    \/ LongTick
    \/ StartMessage("w1", {"msg", "yes"})
    \/ SoloStep("w1")

SoloSpec == Init /\ [][SoloNext]_vars

(* ---- one delivery at a time, its parse and its reply kept side by side --- *)
\* starts a customer may ask for: Tue 08:30, 10:00, 17:00, 17:30, 18:00 and Sun 10:00
DeskStarts == {65, 68, 82, 83, 84, 308}

\* a confident booking parse with any mix of service and start, or a parse that
\* is not a confident booking although it names a service and a start
DeskAnswers ==
    Answers({TRUE}, {TRUE}, MsgServices \cup {NoService, OtherService},
            DeskStarts \cup {NoStart}, {"last"}, {TRUE})
        \cup Answers({FALSE}, BOOLEAN, MsgServices, MsgStarts, {"last"}, {TRUE})

DeskTexts == {"msg", "yes", "no", "btn_confirm", "btn_cancel"}

\* a bare token holds no booking keyword (line 295) and parses to no booking
AnswersFor(text, A) == IF text = "msg" THEN A ELSE {NoAnswer}

Delivered == msgs["c1"] + msgs["c2"]

\* the returned handler together with the parse it was given
Asked(S, w, o) ==
    [S EXCEPT !.loc[w].intent_ok = o.intent_ok, !.loc[w].related = o.related,
              !.loc[w].svc = o.svc, !.loc[w].start = o.start]

\* process_webhook_payload calls try_create_pending_booking for one delivery;
\* the worker keeps the reply until it is sent
Deliver(w, A) ==
    \E c \in Customers, text \in DeskTexts :
        \E o \in AnswersFor(text, A), d \in ButtonIds(text) :
            LET B == BeginMessage(Cur, w, c, text, d, now)
                R == RunToEnd(B, w, now, o)
            IN /\ pc[w] = "idle"
               /\ Delivered < MaxDeskMsgs
               /\ Become([Asked(R, w, o) EXCEPT !.loc[w].btn_draft = d])
               /\ msgs' = [msgs EXCEPT ![c] = @ + 1]
               /\ now' = now

DeskNext ==
    \/ Tick
    \/ Deliver("w1", DeskAnswers)
    \/ Finish("w1")

DeskSpec == Init /\ [][DeskNext]_vars

(* ---- the reply of a delivery: buttons, fallback text or plain text -------- *)
\* results that stand for an exception raised inside the handler; the outer
\* except of process_webhook_payload (line 718) prints it and sends nothing
Raised == {"error_unpack", "error_keyerror"}

\* what requests.post does for send_whatsapp_buttons: a 2xx answer, another
\* status, or an exception (connection error, the 10 s timeout)
ButtonOutcomes == {"ok", "refused", "raised"}

\* get_active_draft at line 494: expire_old_drafts, then the SELECT
DoPromptLookup(S, w, t, o) ==
    LET ds == ExpireDrafts(S.drafts, t)
        hs == ReleaseActiveHolds(S.holds, ExpiringDraftHolds(S.drafts, t))
        d == PickRow(ActiveDraftRows(ds, S.loc[w].customer), o.pick)
    IN Goto([S EXCEPT !.drafts = ds, !.holds = hs], w,
            IF d # 0 THEN "W496" ELSE "W533", [S.loc[w] EXCEPT !.prev = d])

\* lines 496-518: send_whatsapp_buttons and what follows from its answer
DoSendButtons(S, w, outcome) ==
    CASE outcome = "ok" ->
           Goto(S, w, "replied", [S.loc[w] EXCEPT !.prompts = Append(@, "buttons")])
      [] outcome = "refused" -> Goto(S, w, "W511", S.loc[w])
      [] outcome = "raised" -> Goto(S, w, "replied", S.loc[w])

\* lines 509-511: the fallback text with the YES / CANCEL instructions
DoSendFallback(S, w) ==
    Goto(S, w, "replied", [S.loc[w] EXCEPT !.prompts = Append(@, "fallback")])

\* lines 526-534 (and 716 for a message the booking engine did not handle):
\* the reply sent as plain text
DoSendText(S, w) ==
    Goto(S, w, "replied", [S.loc[w] EXCEPT !.prompts = Append(@, "text")])

PromptLookup(w) ==
    /\ pc[w] \in {"done"}
    /\ loc[w].result = "proposed"
    /\ Become(DoPromptLookup(Cur, w, now, NoAnswer))
    /\ UNCHANGED <<now, msgs>>
SendButtons(w) ==
    \E outcome \in ButtonOutcomes :
        /\ pc[w] \in {"W496"}
        /\ Become(DoSendButtons(Cur, w, outcome))
        /\ UNCHANGED <<now, msgs>>
SendFallback(w) ==
    /\ pc[w] \in {"W511"}
    /\ Become(DoSendFallback(Cur, w))
    /\ UNCHANGED <<now, msgs>>
SendText(w) ==
    /\ \/ pc[w] \in {"W533"}
       \/ (pc[w] \in {"done"} /\ loc[w].result \notin Raised \cup {"proposed"})
    /\ Become(DoSendText(Cur, w))
    /\ UNCHANGED <<now, msgs>>
Dropped(w) ==
    /\ pc[w] \in {"done"}
    /\ loc[w].result \in Raised
    /\ Become(Goto(Cur, w, "replied", loc[w]))
    /\ UNCHANGED <<now, msgs>>
Close(w) ==
    /\ pc[w] \in {"replied"}
    /\ Become(Free(Cur, w))
    /\ UNCHANGED <<now, msgs>>

PromptNext ==
    \/ Tick
    \/ Deliver("w1", BookingAnswers)
    \/ PromptLookup("w1")
    \/ SendButtons("w1")
    \/ SendFallback("w1")
    \/ SendText("w1")
    \/ Dropped("w1")
    \/ Close("w1")

PromptSpec == Init /\ [][PromptNext]_vars

(* ---- a customer's statements interleaved with an admin's approval --------- *)
DecisionNext ==
    \/ Tick
    \/ StartMessage("w1", {"yes"})
    \/ ExpireHoldsStmt("w1")
    \/ ExpireDraftsSelect("w1")
    \/ ExpireDraftsUpdate("w1")
    \/ ExpireDraftsRelease("w1")
    \/ GetActiveDraftSelect("w1")
    \/ AvailRequestsStmt("w1")
    \/ AvailHoldsStmt("w1")
    \/ ReleaseHoldStmt("w1")
    \/ MarkDraftStmt("w1")
    \/ CreateRequestStmt("w1")
    \/ ParseStmt("w1", BookingAnswers)
    \/ ClearContextStmt("w1")
    \/ UpsertContextStmt("w1")
    \/ CreateHoldStmt("w1")
    \/ CreateDraftSelect("w1")
    \/ CreateDraftInsert("w1")
    \/ Finish("w1")
    \/ StartAdmin("w2", {"approved"})
    \/ AdminDecide("w2")
    \/ AdminReleaseHold("w2")
    \/ AdminNotify("w2")
    \/ Finish("w2")

DecisionSpec == Init /\ [][DecisionNext]_vars

(* ---- the idempotency guard in front of the handler ------------------------ *)
\* mutant: the INSERT without its ON CONFLICT clause's effect on rowcount
ClaimInboundMessageId_Always(I, message_id) ==
    [inbound |-> [I EXCEPT !.db = @ \cup {message_id}], claimed |-> TRUE]

\* INSERT INTO processed_inbound ... ON CONFLICT (message_id) DO NOTHING; rowcount = 1
ClaimInboundMessageId(I, message_id) ==
    [inbound |-> [I EXCEPT !.db = @ \cup {message_id}], claimed |-> message_id \notin I.db]

\* seen_recent under processed_lock: entries older than the TTL are dropped,
\* then the id is looked up and, when absent, recorded with the time
SeenRecent(I, msg_id, t) ==
    LET kept == {e \in I.mem : ~((t - e.ts) > PROCESSED_TTL)}
    IN IF \E e \in kept : e.id = msg_id
       THEN [inbound |-> [I EXCEPT !.mem = kept], seen |-> TRUE]
       ELSE [inbound |-> [I EXCEPT !.mem = kept \cup {[id |-> msg_id, ts |-> t]}],
             seen |-> FALSE]

\* a delivery of message m1 (from c1) or m2 (from c2), possibly a repeated one
Arrive(w) ==
    \E m \in {<<"m1", "c1">>, <<"m2", "c2">>} :
        /\ pc[w] = "idle"
        /\ msgs[m[2]] < MaxMsgs
        /\ Become(Goto(Cur, w, "W185", [Idle EXCEPT !.msg_id = m[1], !.customer = m[2],
                                                    !.text = "msg"]))
        /\ msgs' = [msgs EXCEPT ![m[2]] = @ + 1]
        /\ now' = now

\* line 185: the delivery that does not win the INSERT returns at once
ClaimInbound(w) ==
    LET c == ClaimInboundMessageId(inbound, loc[w].msg_id)
    IN /\ pc[w] \in {"W185"}
       /\ inbound' = c.inbound
       /\ IF c.claimed
          THEN pc' = [pc EXCEPT ![w] = "W188"] /\ loc' = loc
          ELSE pc' = [pc EXCEPT ![w] = "done"]
               /\ loc' = [loc EXCEPT ![w].result = "dropped_db"]
       /\ UNCHANGED <<holds, drafts, requests, ctx, now, sent, msgs, kb>>

\* line 188: the in-memory check behind the database one
SeenRecentCheck(w) ==
    LET c == SeenRecent(inbound, loc[w].msg_id, now)
    IN /\ pc[w] \in {"W188"}
       /\ inbound' = c.inbound
       /\ IF c.seen
          THEN pc' = [pc EXCEPT ![w] = "done"]
               /\ loc' = [loc EXCEPT ![w].result = "dropped_mem"]
          ELSE pc' = [pc EXCEPT ![w] = "W462"] /\ loc' = loc
       /\ UNCHANGED <<holds, drafts, requests, ctx, now, sent, msgs, kb>>

\* the delivery that passed the guard is handled (try_create_pending_booking)
HandleClaimed(w) ==
    \E o \in BookingAnswers :
        LET R == RunToEnd(BeginMessage(Cur, w, loc[w].customer, loc[w].text, 0, now),
                          w, now, o)
        IN /\ pc[w] \in {"W462"}
           /\ Become([R EXCEPT !.loc[w].msg_id = loc[w].msg_id])
           /\ UNCHANGED <<now, msgs>>

GuardNext ==
    \/ Tick
    \/ \E w \in Workers : Arrive(w)
    \/ \E w \in Workers : ClaimInbound(w)
    \/ \E w \in Workers : SeenRecentCheck(w)
    \/ \E w \in Workers : HandleClaimed(w)
    \/ \E w \in Workers : Finish(w)

GuardSpec == Init /\ [][GuardNext]_vars

(* ---- kb_cache: retrieved context kept per (user, kb type, k) --------------- *)
ContextCacheKey(from_number, kb_type, k) == <<from_number, kb_type, k>>

CacheKeySet(K) == {key \in CacheKeys : K.contexts[key] # NoEntry}

\* mutant: the age test with the comparison turned round
IsCacheHit_Aged(K, key, force_refresh, t) ==
    LET entry == K.contexts[key]
    IN /\ ~force_refresh
       /\ entry # NoEntry
       /\ entry.version = K.version
       /\ (t - entry.ts) > CACHE_MAX_AGE

\* the condition of the first locked block of get_cached_context
IsCacheHit(K, key, force_refresh, t) ==
    LET entry == K.contexts[key]
    IN /\ ~force_refresh
       /\ entry # NoEntry
       /\ entry.version = K.version
       /\ (t - entry.ts) < CACHE_MAX_AGE

\* retrieve_fn(question, k): what the knowledge base of the moment answers
RetrieveFn(K, question) == [question |-> question, kb |-> K.version]

\* the second locked block: the entry carries the version of the moment and
\* the time read before the lookup
StoreEntry(K, key, context, t) ==
    [K EXCEPT !.contexts[key] = [context |-> context, version |-> K.version, ts |-> t],
              !.missed[key] = t]

\* get_cached_context begins: the key, and now = time.time()
BeginQuery(w) ==
    \E key \in CacheKeys, question \in Questions, force_refresh \in BOOLEAN :
        /\ pc[w] \in {"idle"}
        /\ pc' = [pc EXCEPT ![w] = "K40"]
        /\ loc' = [loc EXCEPT ![w] = [Idle EXCEPT !.customer = key[1],
                                                   !.key = ContextCacheKey(key[1], key[2], key[3]),
                                                   !.question = question,
                                                   !.force_refresh = force_refresh,
                                                   !.tnow = now]]
        /\ UNCHANGED <<holds, drafts, requests, ctx, now, sent, msgs, kb, inbound>>

\* with cache_lock: a usable entry is returned, anything else goes on to retrieve
CacheLookup(w) ==
    /\ pc[w] \in {"K40"}
    /\ IF IsCacheHit(kb, loc[w].key, loc[w].force_refresh, loc[w].tnow)
       THEN /\ pc' = [pc EXCEPT ![w] = "done"]
            /\ loc' = [loc EXCEPT ![w].result = "hit",
                                  ![w].context = kb.contexts[loc[w].key].context]
       ELSE /\ pc' = [pc EXCEPT ![w] = "K51"]
            /\ loc' = loc
    /\ UNCHANGED <<holds, drafts, requests, ctx, now, sent, msgs, kb, inbound>>

\* outside the lock: retrieve_fn answers, or raises and the query ends there
Retrieve(w) ==
    \E outcome \in {"ok", "raised"} :
        /\ pc[w] \in {"K51"}
        /\ IF outcome = "ok"
           THEN /\ pc' = [pc EXCEPT ![w] = "K53"]
                /\ loc' = [loc EXCEPT ![w].context = RetrieveFn(kb, loc[w].question)]
           ELSE /\ pc' = [pc EXCEPT ![w] = "done"]
                /\ loc' = [loc EXCEPT ![w].result = "error_retrieval"]
        /\ UNCHANGED <<holds, drafts, requests, ctx, now, sent, msgs, kb, inbound>>

\* with cache_lock: the entry is written and the query returns a miss
CacheStore(w) ==
    /\ pc[w] \in {"K53"}
    /\ kb' = StoreEntry(kb, loc[w].key, loc[w].context, loc[w].tnow)
    /\ pc' = [pc EXCEPT ![w] = "done"]
    /\ loc' = [loc EXCEPT ![w].result = "miss"]
    /\ UNCHANGED <<holds, drafts, requests, ctx, now, sent, msgs, inbound>>

\* bump_kb_version, called by the admin's knowledge-base commands
BumpKbVersion ==
    /\ kb.version < MaxKbVersion
    /\ kb' = [EmptyKb EXCEPT !.version = kb.version + 1]
    /\ UNCHANGED <<holds, drafts, requests, ctx, now, pc, loc, sent, msgs, inbound>>

CacheTick ==
    /\ now < MaxCacheNow
    /\ now' = now + 1
    /\ UNCHANGED <<holds, drafts, requests, ctx, pc, loc, sent, msgs, kb, inbound>>

CacheNext ==
    \/ CacheTick
    \/ BumpKbVersion
    \/ BeginQuery("w1")
    \/ CacheLookup("w1")
    \/ Retrieve("w1")
    \/ CacheStore("w1")
    \/ Finish("w1")

CacheSpec == Init /\ [][CacheNext]_vars

(* ============================== claims ================================= *)
WindowsOverlap(a, b) == Overlaps(a.start_ts, a.end_ts, b.start_ts, b.end_ts)

\* the worker has returned from handling a message with this text
Handled(w, text) == pc[w] = "done" /\ loc[w].text = text

\* C1 : under every interleaving of message handlers no two distinct active
\* holds have overlapping [start,end) windows
C1_NoOverlappingActiveHolds ==
    \A i, j \in DOMAIN holds :
        (i < j /\ holds[i].status = "active" /\ holds[j].status = "active")
            => ~WindowsOverlap(holds[i], holds[j])

\* C2 : after any sequence of proposals, confirmations, expiries and admin
\* decisions no two distinct approved requests have overlapping windows
C2_NoOverlappingApproved ==
    \A i, j \in DOMAIN requests :
        (i < j /\ requests[i].status = "approved" /\ requests[j].status = "approved")
            => ~WindowsOverlap(requests[i], requests[j])

\* C3 : every customer has at most one proposed draft in every reachable state,
\* also when two handlers of the customer run create_draft concurrently
C3_OneProposedDraft ==
    \A c \in Customers : Cardinality(ProposedDrafts(drafts, c)) <= 1

\* C4 : a confirmation of a draft whose hold's expiry time had passed when the
\* message arrived returns 'just taken' / 'no longer available' and inserts no request
C4_ExpiredHoldNotConfirmed ==
    [][\A w \in Workers :
          (/\ pc[w] \notin {"idle", "done"}
           /\ pc'[w] = "done"
           /\ loc[w].text = "yes"
           /\ loc[w].draft # 0
           /\ holds[drafts[loc[w].draft].hold_id].expires_ts <= loc[w].t0)
          => (loc'[w].result = "just_taken" /\ requests' = requests)]_vars

\* two customers hold proposed drafts with active holds on overlapping windows;
\* b is the draft of the customer who proposed second
RaceState(a, b) ==
    /\ a \in DOMAIN drafts
    /\ b \in DOMAIN drafts
    /\ a < b
    /\ drafts[a].hold_id < drafts[b].hold_id
    /\ drafts[a].customer # drafts[b].customer
    /\ drafts[a].status = "proposed"
    /\ drafts[b].status = "proposed"
    /\ holds[drafts[a].hold_id].status = "active"
    /\ holds[drafts[b].hold_id].status = "active"
    /\ WindowsOverlap(drafts[a], drafts[b])

SecondFails(b) ==
    \A w \in Workers :
        (Handled(w, "yes") /\ loc[w].draft = b)
            => (loc[w].result = "just_taken" /\ loc[w].new_req = 0)

\* C5 : once a race has left two customers with proposed drafts and active holds
\* on overlapping windows, every confirmation of the second proposer's draft
\* returns 'just taken' and creates no request
C5_SecondProposerFails ==
    \A b \in 1..(MaxMsgs * Cardinality(Customers)) :
        []((\E a \in DOMAIN drafts : RaceState(a, b)) => [](SecondFails(b)))

\* C6 : when a customer with a proposed draft has sent another booking message
\* and it has been handled, the first draft is cancelled, its hold released and
\* the customer's only proposed draft is the new one
C6_NewProposalReplacesDraft ==
    \A w \in Workers :
        (Handled(w, "msg") /\ loc[w].draft # 0)
            => /\ drafts[loc[w].draft].status = "cancelled"
               /\ holds[drafts[loc[w].draft].hold_id].status = "released"
               /\ loc[w].draft_id # 0
               /\ ProposedDrafts(drafts, loc[w].customer) = {loc[w].draft_id}

\* C7 : a confirmation whose re-check found the window available ends with one
\* new pending request for the draft, the hold linked to it, the draft confirmed,
\* the context deleted and an admin payload returned
C7_ConfirmationCompletes ==
    \A w \in Workers :
        (Handled(w, "yes") /\ loc[w].draft # 0 /\ loc[w].new_req # 0)
            => /\ requests[loc[w].new_req].status = "pending"
               /\ requests[loc[w].new_req].customer = loc[w].customer
               /\ WindowsOverlap(requests[loc[w].new_req], drafts[loc[w].draft])
               /\ holds[drafts[loc[w].draft].hold_id].request_id = loc[w].new_req
               /\ drafts[loc[w].draft].status = "confirmed"
               /\ ctx[loc[w].customer] = NoCtx
               /\ loc[w].result = "confirmed"

\* approve invocations on request r whose decide_request has succeeded: those
\* still on their way to the notification and those that have sent it
ApproveSuccesses(r) ==
    sent[r].approved +
    Cardinality({w \in Workers : /\ pc[w] \in {"A_find", "A_release", "A_notify"}
                                 /\ loc[w].action = "approved"
                                 /\ loc[w].req = r})

AdminReturned(w, action, r) ==
    pc[w] = "done" /\ loc[w].action = action /\ loc[w].req = r

\* C8 : of the approve invocations on one request, sequential or concurrent,
\* exactly one succeeds and sends the one approval notification; every other
\* one returns conflict
C8_ApproveOnce ==
    \A r \in DOMAIN requests :
        /\ ApproveSuccesses(r) <= 1
        /\ (requests[r].status \in {"approved", "cancelled"}) <=> (ApproveSuccesses(r) = 1)
        /\ \A w \in Workers :
              AdminReturned(w, "approved", r)
                  => /\ loc[w].result \in {"ok", "conflict"}
                     /\ (loc[w].result = "ok" => sent[r].approved = 1)
                     /\ (loc[w].result = "conflict" => requests[r].status # "pending")

\* two approve invocations on one request have returned: one ok, one conflict
C8_Witness ==
    \E r \in DOMAIN requests : \E w, v \in Workers :
        /\ w # v
        /\ AdminReturned(w, "approved", r) /\ loc[w].result = "ok"
        /\ AdminReturned(v, "approved", r) /\ loc[v].result = "conflict"
        /\ sent[r].approved = 1

\* C9 : decide_request changes a request only if it is pending; on any other
\* status or an unknown id it matches no row (returns false) and leaves every
\* request field and every hold as they were
C9_DecideOnlyPending ==
    [][/\ \A id \in 0..(Len(requests) + 1), d \in {"approved", "rejected"},
             n \in Notes, a \in Admins :
             (id \notin DOMAIN requests \/ requests[id].status # "pending")
                 => /\ DecideRows(requests, id) = {}
                    /\ DecideRequest(requests, id, a, d, n, now) = requests
       /\ \A w \in Workers :
             (pc[w] = "A_decide" /\ pc'[w] # "A_decide")
                 => IF requests[loc[w].req].status = "pending"
                    THEN /\ requests' = [requests EXCEPT
                                ![loc[w].req].status = loc[w].action,
                                ![loc[w].req].admin_number = loc[w].actor,
                                ![loc[w].req].admin_decision_ts = now,
                                ![loc[w].req].admin_note = loc[w].note]
                         /\ holds' = holds
                         /\ pc'[w] = "A_find"
                    ELSE /\ requests' = requests
                         /\ holds' = holds
                         /\ pc'[w] = "done"
                         /\ loc'[w].result = "conflict"]_vars

\* a reject was refused on a request that an earlier approve had decided
C9_Witness ==
    \E r \in DOMAIN requests : \E w \in Workers :
        /\ AdminReturned(w, "rejected", r)
        /\ loc[w].result = "conflict"
        /\ requests[r].status = "approved"
        /\ requests[r].admin_note = "note"

AllowedStatusChanges ==
    {<<"pending", "approved">>, <<"pending", "rejected">>, <<"approved", "cancelled">>}

\* C10 : a request's status changes only pending->approved, pending->rejected
\* or approved->cancelled, and a cancel of a request that is not approved
\* returns conflict and leaves every request unchanged
C10_StatusTransitions ==
    [][/\ \A r \in DOMAIN requests :
             requests'[r].status # requests[r].status
                 => <<requests[r].status, requests'[r].status>> \in AllowedStatusChanges
       /\ \A w \in Workers :
             (/\ pc[w] = "A_cancel"
              /\ pc'[w] # "A_cancel"
              /\ requests[loc[w].req].status # "approved")
                 => /\ requests' = requests
                    /\ pc'[w] = "done"
                    /\ loc'[w].result = "conflict"]_vars

\* one request has been cancelled after its approval, and a cancel of a
\* rejected request has returned conflict
C10_Witness ==
    \E r, q \in DOMAIN requests : \E w \in Workers :
        /\ requests[r].status = "cancelled"
        /\ requests[q].status = "rejected"
        /\ AdminReturned(w, "cancelled", q)
        /\ loc[w].result = "conflict"

\* C11 : every request is created by the confirmation of a draft that is in
\* status 'proposed', for the same customer, service and window; handling a
\* proposal, a cancellation, a restate or a non-booking message creates none
C11_RequestsFromConfirmation ==
    [][Len(requests') # Len(requests)
          => \E w \in Workers :
                LET d == loc[w].draft
                    r == requests'[Len(requests')]
                IN /\ pc[w] = "L223"
                   /\ loc[w].text \in {"yes", "btn_confirm"}
                   /\ d \in DOMAIN drafts
                   /\ drafts[d].status = "proposed"
                   /\ Len(requests') = Len(requests) + 1
                   /\ SubSeq(requests', 1, Len(requests)) = requests
                   /\ r.status = "pending"
                   /\ r.customer = loc[w].customer
                   /\ r.customer = drafts[d].customer
                   /\ r.service_key = drafts[d].service_key
                   /\ r.start_ts = drafts[d].start_ts
                   /\ r.end_ts = drafts[d].end_ts]_vars

\* C12 : when a complete booking intent has been refused because its window is
\* unavailable, the customer's stored context holds no pending start time, so
\* a following message without a time gets none restored
C12_RefusalClearsPendingStart ==
    \A w \in Workers :
        (pc[w] = "done" /\ loc[w].result = "suggest")
            => ctx[loc[w].customer].pending_start_local = NoStart

\* what a merge leaves in a context field: the supplied value, else the stored one
Merged(given, stored, null) == IF given = null THEN stored ELSE given

MsgLabels == {SERVICE_CATALOG[k].label : k \in MsgServices}

\* C13 : upsert_booking_context merges: each pending field becomes the supplied
\* value if one is given and keeps the stored value otherwise, the expiry is
\* refreshed and no other customer's row changes; the handler's upserts of only
\* a start time, only a service, or no field keep the fields they do not supply
C13_UpsertMerges ==
    [][/\ \A c \in Customers, key \in MsgServices \cup {NoService},
             label \in MsgLabels \cup {NoService}, start \in MsgStarts \cup {NoStart} :
             LET new == UpsertBookingContext(ctx, c, key, label, start, now)
             IN /\ new[c].pending_service_key = Merged(key, ctx[c].pending_service_key, NoService)
                /\ new[c].pending_service_label =
                      Merged(label, ctx[c].pending_service_label, NoService)
                /\ new[c].pending_start_local = Merged(start, ctx[c].pending_start_local, NoStart)
                /\ new[c].expires_ts = now + CtxTTL
                /\ \A o \in Customers \ {c} : new[o] = ctx[o]
       /\ \A w \in Workers :
             (pc[w] \in {"L303", "L313", "L330"} /\ pc'[w] = "done")
                 => LET c == loc[w].customer
                    IN /\ ctx'[c].expires_ts = now + CtxTTL
                       /\ pc[w] = "L303"
                             => /\ ctx'[c].pending_service_key = ctx[c].pending_service_key
                                /\ ctx'[c].pending_service_label = ctx[c].pending_service_label
                                /\ ctx'[c].pending_start_local = loc[w].start
                       /\ pc[w] = "L313"
                             => /\ ctx'[c].pending_service_key = loc[w].svc
                                /\ ctx'[c].pending_service_label = SERVICE_CATALOG[loc[w].svc].label
                                /\ ctx'[c].pending_start_local = ctx[c].pending_start_local
                       /\ pc[w] = "L330"
                             => /\ ctx'[c].pending_service_key = ctx[c].pending_service_key
                                /\ ctx'[c].pending_service_label = ctx[c].pending_service_label
                                /\ ctx'[c].pending_start_local = ctx[c].pending_start_local]_vars

\* the handler has stored only a start time in a row that held a service, and
\* the row holds both
C13_Witness ==
    \E w \in Workers :
        /\ pc[w] = "done"
        /\ loc[w].result = "ask_service"
        /\ ctx[loc[w].customer].pending_service_key \in DOMAIN SERVICE_CATALOG
        /\ ctx[loc[w].customer].pending_start_local \in MsgStarts

\* the row upsert_booking_context leaves when no row, or none that counts, is stored
FreshContext(key, label, start, t) ==
    [expires_ts |-> t + CtxTTL, pending_service_key |-> key,
     pending_service_label |-> label, pending_start_local |-> start]

\* C14 : a context row whose expiry has passed counts as absent for every
\* operation: get_booking_context returns none and deletes the row, and an
\* upsert writes only the values it is given, carrying over none of the
\* fields stored before the expiry
C14_ExpiredContextAbsent ==
    [][\A w \in Workers :
          LET c == loc[w].customer
          IN /\ (pc[w] = "L279" /\ pc'[w] # "L279" /\ CtxExpired(ctx, c, now))
                    => pc'[w] = "L670"
             /\ (pc[w] = "L670" /\ pc'[w] # "L670")
                    => /\ ctx'[c] = NoCtx
                       /\ pc'[w] # "done" =>
                              (loc'[w].svc = loc[w].svc /\ loc'[w].start = loc[w].start)
             /\ (pc[w] \in {"L303", "L313", "L330"} /\ pc'[w] = "done"
                    /\ CtxExpired(ctx, c, now))
                    => ctx'[c] =
                         CASE pc[w] = "L303" ->
                                FreshContext(NoService, NoService, loc[w].start, now)
                           [] pc[w] = "L313" ->
                                FreshContext(loc[w].svc, SERVICE_CATALOG[loc[w].svc].label,
                                             NoStart, now)
                           [] pc[w] = "L330" ->
                                FreshContext(NoService, NoService, NoStart, now)]_vars

\* C15 : in every behaviour, concurrent ones included, no step changes a hold
\* that is 'expired' or 'released' back to 'active', and no step changes a
\* draft that has left 'proposed' back to 'proposed'
C15_NoResurrection ==
    [][/\ \A i \in DOMAIN holds :
             holds[i].status \in {"expired", "released"} => holds'[i].status # "active"
       /\ \A d \in DOMAIN drafts :
             drafts[d].status # "proposed" => drafts'[d].status # "proposed"]_vars

\* a hold has been released and its draft expired once their TTL had passed,
\* and handlers that ran afterwards have left a later hold active and a later
\* draft proposed
C15_Witness ==
    \E i, j \in DOMAIN holds : \E d, e \in DOMAIN drafts :
        /\ i < j /\ d < e
        /\ drafts[d].hold_id = i
        /\ holds[i].status = "released"
        /\ holds[i].expires_ts <= now
        /\ drafts[d].status = "expired"
        /\ holds[j].status = "active"
        /\ drafts[e].status = "proposed"

\* the hold a worker at a release_hold call passes to it
ReleaseTarget(w) ==
    IF pc[w] = "L336" THEN drafts[loc[w].prev].hold_id
    ELSE IF pc[w] = "A_release" THEN loc[w].hold_id
    ELSE drafts[loc[w].draft].hold_id

ReleaseLabels == {"L196", "L217", "L258", "L336", "A_release"}

\* C16 : release_hold is idempotent: on a hold that is already 'released', and
\* on an id that matches no hold, it raises nothing and leaves every hold as it
\* was, and releasing twice gives the state that releasing once gives
C16_ReleaseIdempotent ==
    [][/\ \A h \in 0..(Len(holds) + 1) :
             /\ ReleaseHold(ReleaseHold(holds, h), h) = ReleaseHold(holds, h)
             /\ h \notin DOMAIN holds => ReleaseHold(holds, h) = holds
             /\ (h \in DOMAIN holds /\ holds[h].status = "released")
                    => ReleaseHold(holds, h) = holds
       /\ \A w \in Workers :
             (pc[w] \in ReleaseLabels /\ pc'[w] # pc[w])
                 => /\ holds' = ReleaseHold(holds, ReleaseTarget(w))
                    /\ pc'[w] \notin {"done", "idle"}
                    /\ holds[ReleaseTarget(w)].status = "released" => holds' = holds]_vars

\* a confirmation that found its window taken calls release_hold on its draft's
\* hold, which the draft reaper has already released
C16_Witness ==
    \E w \in Workers :
        /\ pc[w] = "L217"
        /\ holds[ReleaseTarget(w)].status = "released"

\* the windows is_window_available is asked about: every catalog duration from
\* every half hour around the slots customers book
QueryStarts == 64..72

\* C17 : is_window_available(start, end, ignore_hold_id) is true exactly when no
\* approved request and no active hold other than ignore_hold_id has a window w
\* with w.start < end and start < w.end; touching windows do not conflict,
\* pending and rejected requests and released and expired holds never block,
\* and ignore_hold_id exempts no approved request
C17_AvailabilityExact ==
    \A s \in QueryStarts, k \in DOMAIN SERVICE_CATALOG, ig \in 0..(Len(holds) + 1) :
        LET e == s + SERVICE_CATALOG[k].dur
            blockingRequests == {r \in DOMAIN requests :
                                    /\ requests[r].status = "approved"
                                    /\ requests[r].start_ts < e
                                    /\ s < requests[r].end_ts}
            blockingHolds == {i \in DOMAIN holds :
                                 /\ holds[i].status = "active"
                                 /\ i # ig
                                 /\ holds[i].start_ts < e
                                 /\ s < holds[i].end_ts}
        IN IsWindowAvailable(requests, holds, s, e, ig)
               <=> (blockingRequests = {} /\ blockingHolds = {})

\* an approved request, an active hold and an expired hold share one window:
\* the window is refused even when the active hold is ignored, and the windows
\* that touch it on either side are available
C17_Witness ==
    \E r \in DOMAIN requests : \E h, g \in DOMAIN holds :
        /\ requests[r].status = "approved"
        /\ holds[h].status = "active" /\ WindowsOverlap(holds[h], requests[r])
        /\ holds[g].status = "expired" /\ WindowsOverlap(holds[g], requests[r])
        /\ ~IsWindowAvailable(requests, holds, requests[r].start_ts, requests[r].end_ts, h)
        /\ IsWindowAvailable(requests, holds, requests[r].end_ts, requests[r].end_ts + 2, 0)
        /\ IsWindowAvailable(requests, holds, requests[r].start_ts - 2, requests[r].start_ts, 0)

\* the window a worker at an availability statement is asking about
AskedStart(w) ==
    IF pc[w] \in {"L212", "L212h"} THEN drafts[loc[w].draft].start_ts ELSE loc[w].start

AskedEnd(w) ==
    IF pc[w] \in {"L212", "L212h"} THEN drafts[loc[w].draft].end_ts
    ELSE EndOf(loc[w].svc, loc[w].start)

\* every hold that overlaps the window has reached its expiry time, and no
\* approved request overlaps it
OnlyLapsedHoldsOverlap(s, e) ==
    /\ \A i \in DOMAIN holds :
          Overlaps(holds[i].start_ts, holds[i].end_ts, s, e) => holds[i].expires_ts <= now
    /\ \A r \in DOMAIN requests :
          Overlaps(requests[r].start_ts, requests[r].end_ts, s, e)
              => requests[r].status # "approved"

\* C18 : a hold whose expiry time has passed never blocks: when the only holds
\* that overlap a window have expires_ts <= now and no approved request
\* overlaps it, the availability check of a proposal or a confirmation finds
\* the window available, whether or not the reaper has rewritten the status
C18_LapsedHoldNeverBlocks ==
    [][\A w \in Workers :
          (/\ pc[w] \in {"L212h", "L329h"}
           /\ pc'[w] # pc[w]
           /\ OnlyLapsedHoldsOverlap(AskedStart(w), AskedEnd(w)))
              => pc'[w] \notin {"L217", "L330"}]_vars

\* C19 : every active hold whose expiry time has passed is cleaned up as soon
\* as a message handled after that time runs the reaper: no hold with
\* expires_ts <= now is still 'active' after a run of expire_old_holds, be it
\* linked to a draft, to a request, or to nothing because its handler has not
\* got from create_hold to create_draft
C19_ReaperExpiresLapsedHolds ==
    [][\A w \in Workers :
          (pc[w] \in {"L162", "L209"} /\ pc'[w] # pc[w])
              => \A i \in DOMAIN holds' :
                    /\ holds'[i].status = "active" => holds'[i].expires_ts > now
                    /\ (holds[i].status = "active" /\ holds[i].expires_ts <= now)
                           => holds'[i].status = "expired"]_vars

\* the reaper has expired a hold that no draft refers to: the handler that
\* created it has not reached create_draft's INSERT
C19_Witness ==
    \E i \in DOMAIN holds : \E w \in Workers :
        /\ holds[i].status = "expired"
        /\ \A d \in DOMAIN drafts : drafts[d].hold_id # i
        /\ pc[w] \in {"L467", "L479", "L488", "L497"}
        /\ loc[w].hold_id = i

\* C20 : when a customer with a proposed draft sends a message that is neither
\* a confirmation nor a cancellation, the handler answers by presenting the
\* same proposal again and leaves every hold, draft, request and context row
\* as it was
C20_RestateIsIdempotent ==
    [][\A w \in Workers :
          (/\ pc[w] = "L204"
           /\ loc[w].text = "msg"
           /\ pc'[w] # "L204"
           /\ loc'[w].draft # 0)
              => /\ pc'[w] = "done"
                 /\ loc'[w].result = "restate"
                 /\ drafts[loc'[w].draft].status = "proposed"
                 /\ drafts[loc'[w].draft].customer = loc[w].customer
                 /\ holds' = holds
                 /\ drafts' = drafts
                 /\ requests' = requests
                 /\ ctx' = ctx]_vars

\* what the reapers at lines 162-163 leave of the holds and the drafts at time t
ReapedHolds(hs, ds, t) ==
    ReleaseActiveHolds(ExpireOldHolds(hs, t), ExpiringDraftHolds(ds, t))
ReapedDrafts(ds, t) == ExpireDrafts(ds, t)

\* one delivery was handled from its first statement to its reply
Handling(w) == pc[w] = "idle" /\ pc'[w] = "done"

\* the requests made for the booking a draft proposes
RequestsFor(rs, d) ==
    {i \in DOMAIN rs : /\ rs[i].customer = d.customer
                       /\ rs[i].service_key = d.service_key
                       /\ rs[i].start_ts = d.start_ts
                       /\ rs[i].end_ts = d.end_ts}

\* another active hold or an approved request overlaps the draft's window
OthersOverlap(rs, hs, d) ==
    \/ \E i \in DOMAIN hs : /\ i # d.hold_id
                            /\ hs[i].status = "active"
                            /\ WindowsOverlap(hs[i], d)
    \/ \E i \in DOMAIN rs : rs[i].status = "approved" /\ WindowsOverlap(rs[i], d)

\* C21 : when a customer with a proposed draft sends a cancellation token (the
\* text or the Cancel button of that draft), afterwards the draft is
\* 'cancelled', its hold 'released', the customer's context deleted, no request
\* exists for the draft, and the window is available unless another active hold
\* or an approved request overlaps it
C21_CancelReleasesProposal ==
    [][\A w \in Workers :
        (Handling(w) /\ loc'[w].text \in {"no", "btn_cancel"} /\ loc'[w].draft # 0)
            => LET d == drafts'[loc'[w].draft]
               IN /\ d.status = "cancelled"
                  /\ holds'[d.hold_id].status = "released"
                  /\ ctx'[loc'[w].customer] = NoCtx
                  /\ RequestsFor(requests', d) = {}
                  /\ (IsWindowAvailable(requests', holds', d.start_ts, d.end_ts, 0)
                        <=> ~OthersOverlap(requests', holds', d))]_vars

\* the button of this delivery names an existing draft that is another
\* customer's or, by the time the handler looks it up, no longer 'proposed'
ForeignOrStaleButton(w) ==
    LET d == loc'[w].btn_draft
    IN /\ loc'[w].text \in {"btn_confirm", "btn_cancel"}
       /\ d \in DOMAIN drafts
       /\ \/ drafts[d].customer # loc'[w].customer
          \/ ReapedDrafts(drafts, now)[d].status # "proposed"

\* nothing but the reapers' expiry has touched drafts, holds and requests
OnlyReaped ==
    /\ drafts' = ReapedDrafts(drafts, now)
    /\ holds' = ReapedHolds(holds, drafts, now)
    /\ requests' = requests

\* C22 : a Confirm or Cancel button naming a draft of another customer, or a
\* draft that is not 'proposed', is answered 'offer no longer available' and
\* changes no draft, no hold and no request, and creates no request
C22_ForeignButtonRefused ==
    [][\A w \in Workers :
        (Handling(w) /\ ForeignOrStaleButton(w))
            => /\ loc'[w].result \in {"offer_gone", "offer_expired"}
               /\ OnlyReaped]_vars

\* minutes since midnight of a slot, and the business-hours rule in those
\* terms: the start within [09:00, 18:00), the end of the same day within
\* (09:00, 18:00]
MinuteOfDay(t) == 30 * (t % 48)
WithinHours(start_ts, end_ts) ==
    /\ 540 <= MinuteOfDay(start_ts) /\ MinuteOfDay(start_ts) < 1080
    /\ start_ts \div 48 = end_ts \div 48
    /\ 540 < MinuteOfDay(end_ts) /\ MinuteOfDay(end_ts) <= 1080

\* the handler of this delivery found no active draft and parsed the text
Parsed(w) ==
    /\ Handling(w)
    /\ loc'[w].text \in {"msg", "yes", "no"}
    /\ ActiveDraftRows(ReapedDrafts(drafts, now), loc'[w].customer) = {}

\* what the delivery asks for: its parse, completed from the customer's stored
\* context unless that context has expired
Wanted(w) ==
    LET c == loc'[w].customer
    IN IF CtxExpired(ctx, c, now) THEN loc'[w] ELSE MergeContext(loc'[w], ctx[c])

\* a confident booking parse with a known service and a start that passes the
\* business-hours check and the availability check
Bookable(w) ==
    LET m == Wanted(w)
    IN /\ Parsed(w)
       /\ m.intent_ok
       /\ m.svc \in DOMAIN SERVICE_CATALOG
       /\ m.start # NoStart
       /\ Weekday(m.start) # ClosedWeekday
       /\ WithinHours(m.start, m.start + SERVICE_CATALOG[m.svc].dur)
       /\ IsWindowAvailable(requests, ReapedHolds(holds, drafts, now), m.start,
                            m.start + SERVICE_CATALOG[m.svc].dur, 0)

Earlier(rows) == SubSeq(rows, 1, Len(rows) - 1)

\* C23 : a booking message with a known service and a start that passes the
\* business-hours and availability checks creates exactly one new active hold
\* and one new proposed draft for the customer, both with the window
\* [start, start + duration), the draft naming the new hold; it creates no
\* request and deletes the customer's context
C23_ProposalCreatesHoldAndDraft ==
    [][\A w \in Workers :
        Bookable(w)
            => LET m == Wanted(w)
                   c == loc'[w].customer
                   h == holds'[Len(holds')]
                   d == drafts'[Len(drafts')]
               IN /\ loc'[w].result = "proposed"
                  /\ Len(holds') = Len(holds) + 1
                  /\ Earlier(holds') = ReapedHolds(holds, drafts, now)
                  /\ h.status = "active" /\ h.customer = c
                  /\ h.start_ts = m.start
                  /\ h.end_ts = m.start + SERVICE_CATALOG[m.svc].dur
                  /\ Len(drafts') = Len(drafts) + 1
                  /\ Earlier(drafts') = ReapedDrafts(drafts, now)
                  /\ d.status = "proposed" /\ d.customer = c
                  /\ d.start_ts = h.start_ts /\ d.end_ts = h.end_ts
                  /\ d.hold_id = Len(holds')
                  /\ ProposedDrafts(drafts', c) = {Len(drafts')}
                  /\ requests' = requests
                  /\ ctx'[c] = NoCtx]_vars

\* a proposal whose service came from the stored context: the message gave
\* only the start, and the customer's context is gone afterwards
C23_Witness ==
    /\ pc["w1"] = "done" /\ loc["w1"].result = "proposed"
    /\ loc["w1"].svc = NoService /\ loc["w1"].start # NoStart
    /\ drafts # <<>>
    /\ drafts[Len(drafts)].hold_id = Len(holds)
    /\ holds[Len(holds)].status = "active"
    /\ ctx[loc["w1"].customer] = NoCtx

\* a parsed delivery that asks, with a confident booking intent, for a known
\* service at a given start
Complete(w) ==
    /\ Parsed(w)
    /\ Wanted(w).intent_ok
    /\ Wanted(w).svc \in DOMAIN SERVICE_CATALOG
    /\ Wanted(w).start # NoStart

\* the rule as the claim states it
Admissible(service_key, start_ts) ==
    /\ Weekday(start_ts) # ClosedWeekday
    /\ WithinHours(start_ts, start_ts + SERVICE_CATALOG[service_key].dur)

\* lines 320-329 let this service and start through to is_window_available
GateOpens(service_key, start_ts) ==
    Stage1(Cur, "w1", [Idle EXCEPT !.intent_ok = TRUE, !.svc = service_key,
                                   !.start = start_ts]).pc["w1"] = "L329"

\* every half hour of a week
WeekSlots == 0 .. (7 * 48 - 1)

\* C24 : a requested start proceeds to the availability check if and only if it
\* is not on the closed weekday, lies in [09:00, 18:00) and start + duration
\* lies in (09:00, 18:00]; a refused start gets the closed-day or the
\* booking-hours message and creates no hold and no draft
C24_BusinessHoursGate ==
    [][\A w \in Workers :
        Complete(w)
            => LET m == Wanted(w)
                   ok == Admissible(m.svc, m.start)
               IN /\ ok <=> loc'[w].result \in {"proposed", "suggest"}
                  /\ ~ok =>
                       /\ loc'[w].result =
                            IF Weekday(m.start) = ClosedWeekday THEN "closed" ELSE "hours"
                       /\ OnlyReaped
                       /\ \A k \in DOMAIN SERVICE_CATALOG, s \in WeekSlots :
                              GateOpens(k, s) <=> Admissible(k, s)]_vars

\* a start of 17:30 for a one-hour service was refused with the booking-hours
\* message while another booking's hold was in the table
C24_Witness ==
    /\ pc["w1"] = "done"
    /\ loc["w1"].start = 83 /\ loc["w1"].svc = "car_wash"
    /\ loc["w1"].result = "hours"
    /\ holds # <<>>

\* the candidates of the search: one every 30 minutes, from one step after the
\* requested start, for 7 days
Grid(requested_start) == {requested_start + i : i \in 1 .. (7 * 48)}

\* a candidate the search has to offer: open day, business hours, available
Qualifies(rs, hs, service_key, g) ==
    /\ Admissible(service_key, g)
    /\ IsWindowAvailable(rs, hs, g, g + SERVICE_CATALOG[service_key].dur, 0)

\* the alternatives are the earliest qualifying candidates, at most 3, in
\* ascending order, found with at most one check per candidate
EarliestQualifying(rs, hs, service_key, requested_start, found) ==
    LET alts == found.alts
        starts == {alts[i].start_ts : i \in DOMAIN alts}
    IN /\ Len(alts) <= 3
       /\ \A i, j \in DOMAIN alts : i < j => alts[i].start_ts < alts[j].start_ts
       /\ \A i \in DOMAIN alts :
            /\ alts[i].start_ts \in Grid(requested_start)
            /\ alts[i].end_ts = alts[i].start_ts + SERVICE_CATALOG[service_key].dur
            /\ Qualifies(rs, hs, service_key, alts[i].start_ts)
       /\ \A g \in Grid(requested_start) :
            (/\ Qualifies(rs, hs, service_key, g)
             /\ (Len(alts) < 3 \/ g < alts[Len(alts)].start_ts))
                => g \in starts
       /\ requested_start \notin starts
       /\ found.checks <= 7 * 48

\* requested starts tried beside the delivery's own: Tue 09:30, 10:00, 17:00,
\* Sat 17:30 (the closed day follows)
SearchStarts == {67, 68, 82, 275}

\* C25 : _suggest_alternative_slots returns in ascending order the earliest
\* candidates, at most 3, of the 30-minute grid that starts one step after the
\* requested start and spans 7 days, each on an open day, within business hours
\* and reported available; no earlier qualifying candidate is skipped, the
\* requested start is never returned, the checks are bounded, no hold is created
C25_SuggestionsAreEarliest ==
    [][\A w \in Workers :
        (Handling(w) /\ loc'[w].result = "suggest")
            => /\ OnlyReaped
               /\ loc'[w].alts =
                    SuggestAlternativeSlots(requests', holds', Wanted(w).svc,
                                            Wanted(w).start).alts
               /\ \A k \in DOMAIN SERVICE_CATALOG,
                     s \in SearchStarts \cup {Wanted(w).start} :
                    EarliestQualifying(requests', holds', k, s,
                        SuggestAlternativeSlots(requests', holds', k, s))]_vars

\* a reply with three alternatives that leaves out a candidate another hold
\* covers: asked for Tue 10:00, offered 11:00, 11:30 and 12:00 but not 10:30
C25_Witness ==
    /\ pc["w1"] = "done" /\ loc["w1"].result = "suggest"
    /\ Len(loc["w1"].alts) = 3
    /\ loc["w1"].alts[1].start_ts = 70
    /\ \E i \in DOMAIN holds : holds[i].status = "active" /\ holds[i].start_ts = 68

\* not a confident booking intent, or no known service, or no start
Incomplete(m) ==
    \/ ~m.intent_ok
    \/ m.svc \notin DOMAIN SERVICE_CATALOG
    \/ m.start = NoStart

\* no hold, draft or request is created or changed beyond the reapers' expiry,
\* and no other customer's context changes
OnlyContextOf(c) ==
    /\ OnlyReaped
    /\ \A x \in Customers \ {c} : ctx'[x] = ctx[x]

\* C26 (as stated) : if the external parse is not a confident booking intent, or
\* lacks a known service or a start time, handling the message creates no hold,
\* no draft and no request and changes at most the customer's booking context
C26_PartialParseCreatesNothing ==
    [][\A w \in Workers :
        (Parsed(w) /\ Incomplete(loc'[w])) => OnlyContextOf(loc'[w].customer)]_vars

\* C26 (amended) : if the parse is not a confident booking intent, or if, after
\* the fields it lacks are restored from the customer's stored context, a known
\* service or a start time is still missing, handling the message creates no
\* hold, no draft and no request and changes at most the customer's context
C26_IncompleteIntentCreatesNothing ==
    [][\A w \in Workers :
        (Parsed(w) /\ Incomplete(Wanted(w))) => OnlyContextOf(loc'[w].customer)]_vars

\* a confident parse naming a service outside the catalog and a start: the
\* start is remembered, the service asked for, and nothing is booked
C26_Witness ==
    /\ pc["w1"] = "done" /\ loc["w1"].result = "ask_service"
    /\ loc["w1"].svc = OtherService /\ loc["w1"].start # NoStart
    /\ ctx[loc["w1"].customer].pending_start_local = loc["w1"].start
    /\ ProposedDrafts(drafts, loc["w1"].customer) = {}

\* C27 : every request created by a confirmation has a public reference,
\* generated once and stored with the request, unique among all requests and
\* distinct from the numeric id, and create_booking_request hands both the id
\* and the public reference to the orchestrator
C27_RequestsCarryPublicRef ==
    /\ \A i \in DOMAIN requests :
         /\ "public_ref" \in DOMAIN requests[i]
         /\ DisplayRef(requests, i) # i
         /\ \A j \in DOMAIN requests \ {i} :
                DisplayRef(requests, j) # DisplayRef(requests, i)
    /\ \A w \in Workers :
         (pc[w] = "done" /\ loc[w].new_req # 0) => loc[w].result # "error_unpack"

\* admin invocations of one action on request r that have changed the request
\* and are on their way to the customer notification
OnTheWay(r, action) ==
    Cardinality({w \in Workers : /\ pc[w] \in {"A_find", "A_release", "A_notify"}
                                 /\ loc[w].action = action
                                 /\ loc[w].req = r})

\* the action has succeeded on request r
Succeeded(r, action) ==
    CASE action = "approved" -> requests[r].status \in {"approved", "cancelled"}
      [] action = "rejected" -> requests[r].status = "rejected"
      [] action = "cancelled" -> requests[r].status = "cancelled"

Said(notice) == {notice.says[i] : i \in DOMAIN notice.says}

C29_ExactlyOnePrompt ==
    [][\A w \in Workers :
        /\ pc[w] \in {"W496", "W511"}
             => /\ drafts' = drafts
                /\ holds' = holds
                /\ requests' = requests
        /\ (pc[w] # "replied" /\ pc'[w] = "replied" /\ loc'[w].result = "proposed")
             => /\ Len(loc'[w].prompts) = 1
                /\ loc'[w].prompts[1] \in {"buttons", "fallback", "text"}
                /\ pc[w] = "W511" => loc'[w].prompts = <<"fallback">>]_vars

C31_PendingBlocksWindow ==
    \A r \in DOMAIN requests :
        requests[r].status = "pending"
            => ~IsWindowAvailable(requests, holds, requests[r].start_ts, requests[r].end_ts, 0)

\* C32: every proposed draft names a hold that exists, is active, has the
\* draft's customer and window, and is named by no other draft
C32_ProposedDraftOwnsActiveHold ==
    \A d \in DOMAIN drafts :
        drafts[d].status = "proposed"
            => LET h == drafts[d].hold_id
               IN /\ h \in DOMAIN holds
                  /\ holds[h].status = "active"
                  /\ holds[h].customer = drafts[d].customer
                  /\ holds[h].start_ts = drafts[d].start_ts
                  /\ holds[h].end_ts = drafts[d].end_ts
                  /\ \A e \in DOMAIN drafts \ {d} : drafts[e].hold_id # h

\* the statement of worker w that leaves label l
Leaves(w, l) == pc[w] = l /\ pc'[w] # l

HoldsBehind(rs, ds, r) ==
    {ds[d].hold_id : d \in {e \in DOMAIN ds : r \in RequestsFor(rs, ds[e])}}

\* C34: when an approve or a reject has succeeded and the admin action
\* returns, no hold of the request's draft is active; after a reject the
\* request's window is available unless an active hold or an approved request
\* overlaps it
C34_DecisionReleasesHold ==
    [][\A w \in Workers :
        (/\ pc[w] = "A_notify" /\ pc'[w] = "done"
         /\ loc'[w].result = "ok"
         /\ loc'[w].action \in {"approved", "rejected"})
            => LET r == loc'[w].req
                   H == HoldsBehind(requests', drafts', r)
               IN /\ \A h \in H : holds'[h].status # "active"
                  /\ loc'[w].action = "rejected"
                        => (IsWindowAvailable(requests', holds', requests'[r].start_ts,
                                              requests'[r].end_ts, 0)
                              <=> ~(\/ \E i \in DOMAIN holds' \ H :
                                          /\ holds'[i].status = "active"
                                          /\ WindowsOverlap(holds'[i], requests'[r])
                                    \/ \E i \in DOMAIN requests' :
                                          /\ requests'[i].status = "approved"
                                          /\ WindowsOverlap(requests'[i], requests'[r])))]_vars

\* C35: once a request is approved, no availability check of a proposal or of
\* a confirmation comes back 'available' for a window that overlaps it: the
\* handler leaves is_window_available towards the hold (line 334) or the insert
\* (line 223) only while no approved request overlaps the window it asked about
C35_ApprovedAlwaysBlocks ==
    [][\A w \in Workers :
          (/\ pc[w] \in {"L212h", "L329h"}
           /\ pc'[w] # pc[w]
           /\ pc'[w] \notin {"L217", "L330"})
              => ApprovedCount(requests, AskedStart(w), AskedEnd(w)) = 0]_vars

\* no two active holds overlap, and no active hold overlaps an approved
\* request of another customer
SlotsApart(rs, hs) ==
    /\ \A i, j \in DOMAIN hs :
          (i < j /\ hs[i].status = "active" /\ hs[j].status = "active")
              => ~WindowsOverlap(hs[i], hs[j])
    /\ \A i \in DOMAIN hs, r \in DOMAIN rs :
          (/\ hs[i].status = "active"
           /\ rs[r].status = "approved"
           /\ rs[r].customer # hs[i].customer)
              => ~WindowsOverlap(hs[i], rs[r])

\* C36: with each message handled to completion before the next, a handler
\* adds a hold or a draft only for a window that no active hold and no
\* approved request overlapped (once the lapsed ones are expired), and whenever
\* no handler is running the active holds are pairwise disjoint and disjoint
\* from the approved requests of other customers
C36_SerialHandlersKeepSlotsApart ==
    [][/\ (Len(holds') > Len(holds) \/ Len(drafts') > Len(drafts))
                => /\ Len(holds') = Len(holds) + 1
                   /\ Len(drafts') = Len(drafts) + 1
                   /\ IsWindowAvailable(requests, ReapedHolds(holds, drafts, now),
                                        holds'[Len(holds')].start_ts,
                                        holds'[Len(holds')].end_ts, 0)
       /\ (\A w \in Workers : pc'[w] = "idle") => SlotsApart(requests', holds')]_vars

\* the drafts of one customer for one service and window
DraftsLike(ds, d) ==
    {e \in DOMAIN ds : /\ ds[e].customer = d.customer
                       /\ ds[e].service_key = d.service_key
                       /\ ds[e].start_ts = d.start_ts
                       /\ ds[e].end_ts = d.end_ts}

\* C37: a draft gives rise to at most one request: a customer never has more
\* requests for a service and window than drafts for that service and window
C37_OneRequestPerDraft ==
    \A d \in DOMAIN drafts :
        Cardinality(RequestsFor(requests, drafts[d])) <= Cardinality(DraftsLike(drafts, drafts[d]))

\* C38: a draft that is no longer 'proposed' keeps its status in every step,
\* and the statement that inserts a request (line 223) runs only for a draft
\* whose stored status is 'proposed'
C38_OnlyProposedDraftsChange ==
    [][/\ \A d \in DOMAIN drafts :
            drafts[d].status # "proposed" => drafts'[d].status = drafts[d].status
       /\ \A w \in Workers :
            (pc[w] = "L223" /\ Len(requests') > Len(requests))
                => drafts[loc[w].draft].status = "proposed"]_vars

\* C39: of the deliveries of one message id exactly the first to run the
\* INSERT passes the guard: a claimed id is never forgotten, a delivery passes
\* line 185 exactly when its id was not claimed before, the one that passes is
\* not stopped by the in-memory check, no two deliveries of one id are past the
\* guard together, and a dropped delivery returns with the booking state
\* untouched (only a delivery past the guard changes it)
C39_OneDeliveryPerMessageId ==
    [][/\ inbound.db \subseteq inbound'.db
       /\ \A w \in Workers :
            /\ Leaves(w, "W185")
                 => IF loc[w].msg_id \in inbound.db
                    THEN /\ pc'[w] = "done"
                         /\ loc'[w].result = "dropped_db"
                    ELSE /\ pc'[w] = "W188"
                         /\ loc[w].msg_id \in inbound'.db
            /\ Leaves(w, "W188") => pc'[w] = "W462"
       /\ \A w, v \in Workers :
            (w # v /\ pc'[w] \in {"W188", "W462"} /\ pc'[v] \in {"W188", "W462"})
                => loc'[w].msg_id # loc'[v].msg_id
       /\ (<<holds, drafts, requests, ctx>>' # <<holds, drafts, requests, ctx>>)
            => \E w \in Workers : pc[w] = "W462" /\ pc'[w] = "done"]_vars

\* a repeated delivery of a message id has been dropped while the first
\* delivery of that id is still on its way to the handler
C39_Witness ==
    \E w, v \in Workers :
        /\ pc[w] = "done" /\ loc[w].result = "dropped_db"
        /\ pc[v] \in {"W188", "W462"}
        /\ loc[v].msg_id = loc[w].msg_id

\* C40: a context returned as a cache hit was retrieved from the knowledge
\* base of the current version, never from the one before a completed bump
C40_NoHitFromBeforeBump ==
    [][\A w \in Workers :
          (pc[w] = "K40" /\ pc'[w] = "done" /\ loc'[w].result = "hit")
              => loc'[w].context.kb = kb.version]_vars

====
